---- MODULE Spec2Model ----
(***************************************************************************)
(* A model of luaffi-rs: the C type algebra and its layout rules           *)
(* (ctype.rs), the declaration parser (parser.rs), the type registry and   *)
(* the type-name resolution and allocation entry points (ffi_ops.rs,       *)
(* cdata.rs).  Text is modelled as sequences of one-character strings, so  *)
(* that the parser and the type-name resolution work on characters as the  *)
(* code does.  The platform is a 64-bit unix target.  The values (CData)   *)
(* live in blocks of bytes: the boxed small buffers and the heap blocks    *)
(* that CData::new takes, read and written through addresses as cdata.rs   *)
(* and ffi_ops.rs do.                                                      *)
(***************************************************************************)
EXTENDS Integers, Sequences, FiniteSets, TLC

VARIABLES
    fields,     \* layout workbench: the Vec<CField> under construction
    ty,         \* layout workbench: the last CType descriptor built
    origin,     \* layout workbench: how ty was built
    registry,   \* TYPE_REGISTRY: type name -> CType
    res,        \* the last call of the module's functions and its outcome
    ncalls,     \* the number of cdef calls made
    vals,       \* the CData values created so far, live or destroyed
    heap,       \* the storage behind them: boxed small buffers and heap blocks
    lock,       \* the RwLock around TYPE_REGISTRY
    threads     \* the threads that use the registry: where each one stands

layoutVars == <<fields, ty, origin>>
lockVars == <<lock, threads>>
regVars == <<registry, res, ncalls, lockVars>>
memVars == <<vals, heap>>
vars == <<fields, ty, origin, registry, res, ncalls, vals, heap, lock, threads>>

(***************************************************************************)
(* Bounds of the model.                                                    *)
(***************************************************************************)
MaxFields == 3
MaxCount == 3
MaxCalls == 2
MaxQuals == 2
MaxStars == 2
MaxVlaCount == 3
MaxThreads == 2

None == [k |-> "None"]

(***************************************************************************)
(* Platform constants (64-bit unix).                                       *)
(***************************************************************************)
PtrSize == 8
BoolSize == 1
BoolAlign == 1
WordSize == 8

(***************************************************************************)
(* The type algebra: CType values are records tagged by k.                 *)
(***************************************************************************)
Scalar(kind) == [k |-> kind]
Ptr(inner) == [k |-> "Ptr", inner |-> inner]
Array(inner, count) == [k |-> "Array", inner |-> inner, count |-> count]
VLA(inner) == [k |-> "VLA", inner |-> inner]
Struct(name, fs) == [k |-> "Struct", name |-> name, fields |-> fs]
Union(name, fs) == [k |-> "Union", name |-> name, fields |-> fs]
Typedef(name, inner) == [k |-> "Typedef", name |-> name, inner |-> inner]
CField(name, ctype, offset) == [name |-> name, ctype |-> ctype, offset |-> offset]

Kinds1 == {"Char", "UChar", "Int8", "UInt8"}
Kinds2 == {"Short", "UShort", "Int16", "UInt16"}
Kinds4 == {"Int", "UInt", "Int32", "UInt32"}
KindsLong == {"Long", "ULong"}
Kinds8 == {"LongLong", "ULongLong", "Int64", "UInt64"}
KindsSizeT == {"SizeT", "SSizeT"}
KindsPosix == {"InoT", "DevT", "GidT", "ModeT", "NlinkT", "UidT", "OffT", "PidT",
               "UsecondsT", "SusecondsT", "BlksizeT", "BlkcntT", "TimeT"}
ScalarKinds == {"Bool", "Float", "Double", "Void"} \cup Kinds1 \cup Kinds2 \cup Kinds4
               \cup KindsLong \cup Kinds8 \cup KindsSizeT \cup KindsPosix

Max(a, b) == IF a >= b THEN a ELSE b

RECURSIVE BitAnd(_, _)
BitAnd(x, y) ==
    IF x = 0 \/ y = 0 THEN 0
    ELSE (IF x % 2 = 1 /\ y % 2 = 1 THEN 1 ELSE 0) + 2 * BitAnd(x \div 2, y \div 2)

\* (x + align - 1) & !(align - 1), with x & !m computed as x - (x & m)
AlignUp(x, align) == LET y == x + align - 1 IN y - BitAnd(y, align - 1)

\* the VLA arms of size() and alignment()
VLASize(inner) == 0

RECURSIVE alignment(_)
RECURSIVE FieldsMaxAlign(_, _)
FieldsMaxAlign(fs, i) ==
    IF i > Len(fs) THEN 0
    ELSE Max(alignment(fs[i].ctype), FieldsMaxAlign(fs, i + 1))

VLAAlign(inner) == alignment(inner)

alignment(t) ==
    CASE t.k = "Bool" -> BoolAlign
      [] t.k \in Kinds1 -> 1
      [] t.k \in Kinds2 -> 2
      [] t.k \in Kinds4 \cup {"Float"} -> 4
      [] t.k \in KindsLong \cup Kinds8 \cup {"Double"} -> 8
      [] t.k \in KindsSizeT -> WordSize
      [] t.k = "Void" -> 1
      [] t.k \in {"Ptr", "Function"} -> PtrSize
      [] t.k \in {"Array", "Typedef"} -> alignment(t.inner)
      [] t.k = "VLA" -> VLAAlign(t.inner)
      [] t.k \in {"Struct", "Union"} ->
            IF t.fields = <<>> THEN 1 ELSE FieldsMaxAlign(t.fields, 1)
      [] OTHER -> 8

RECURSIVE size(_)
RECURSIVE FieldsMaxEnd(_, _)
RECURSIVE FieldsMaxSize(_, _)
FieldsMaxEnd(fs, i) ==
    IF i > Len(fs) THEN 0
    ELSE Max(fs[i].offset + size(fs[i].ctype), FieldsMaxEnd(fs, i + 1))

FieldsMaxSize(fs, i) ==
    IF i > Len(fs) THEN 0
    ELSE Max(size(fs[i].ctype), FieldsMaxSize(fs, i + 1))

ArraySizeBroken(t) == size(t.inner) + t.count
ArraySize(t) == size(t.inner) * t.count

StructSizeBroken(t) ==
    IF t.fields = <<>> THEN 0
    ELSE LET last == t.fields[Len(t.fields)]
         IN AlignUp(last.offset + size(last.ctype), alignment(t))
StructSize(t) ==
    IF t.fields = <<>> THEN 0
    ELSE AlignUp(FieldsMaxEnd(t.fields, 1), alignment(t))

UnionSizeBroken(t) == AlignUp(FieldsMaxEnd(t.fields, 1), alignment(t))
UnionSize(t) == FieldsMaxSize(t.fields, 1)

\* size() with the arm of long and unsigned long lost
sizeLongUnsized(t) ==
    CASE t.k \in KindsLong \cup {"Void"} -> 0
      [] t.k \in Kinds1 \cup {"Bool"} -> 1
      [] t.k \in Kinds2 -> 2
      [] t.k \in Kinds4 \cup {"Float"} -> 4
      [] OTHER -> 8
size(t) ==
    CASE t.k = "Bool" -> BoolSize
      [] t.k \in Kinds1 -> 1
      [] t.k \in Kinds2 -> 2
      [] t.k \in Kinds4 -> 4
      [] t.k \in KindsLong -> WordSize
      [] t.k \in Kinds8 -> 8
      [] t.k \in KindsSizeT -> WordSize
      [] t.k \in KindsPosix -> 8
      [] t.k = "Float" -> 4
      [] t.k = "Double" -> 8
      [] t.k = "Void" -> 0
      [] t.k \in {"Ptr", "Function"} -> PtrSize
      [] t.k = "Array" -> ArraySize(t)
      [] t.k = "VLA" -> VLASize(t.inner)
      [] t.k = "Struct" -> StructSize(t)
      [] t.k = "Union" -> UnionSize(t)
      [] t.k = "Typedef" -> size(t.inner)

(***************************************************************************)
(* parser.rs: the layout pass of parse_struct.                             *)
(***************************************************************************)
\* the layout pass with the running offset never advanced
LayoutFromStacked(fs, i, offset) ==
    [k \in 1..Len(fs) |->
        [fs[k] EXCEPT !.offset = AlignUp(offset, alignment(fs[k].ctype))]]

RECURSIVE LayoutFrom(_, _, _)
LayoutFrom(fs, i, offset) ==
    IF i > Len(fs) THEN fs
    ELSE LET align == alignment(fs[i].ctype)
             at == AlignUp(offset, align)
         IN LayoutFrom([fs EXCEPT ![i].offset = at], i + 1, at + size(fs[i].ctype))

calculate_field_offsets_packed(fs) ==
    [i \in 1..Len(fs) |-> [fs[i] EXCEPT !.offset = FieldsMaxEnd(SubSeq(fs, 1, i - 1), 1)]]
calculate_field_offsets(fs) == LayoutFrom(fs, 1, 0)

(***************************************************************************)
(* Text: a string is a sequence of one-character strings.                  *)
(***************************************************************************)
Lower == {"a", "b", "c", "d", "e", "f", "g", "h", "i", "j", "k", "l", "m",
          "n", "o", "p", "q", "r", "s", "t", "u", "v", "w", "x", "y", "z"}
Upper == {"A", "B", "C", "D", "E", "F", "G", "H", "I", "J", "K", "L", "M",
          "N", "O", "P", "Q", "R", "S", "T", "U", "V", "W", "X", "Y", "Z"}
Digits == {"0", "1", "2", "3", "4", "5", "6", "7", "8", "9"}
\* char::is_alphanumeric() || c == '_'
IdentChars == Lower \cup Upper \cup Digits \cup {"_"}
\* nom multispace: space, tab, CR, LF
Space == {" ", "\t", "\r", "\n"}
\* str::trim: White_Space
TrimChars == Space \cup {"\f"}

DigitValue(c) ==
    CASE c = "0" -> 0 [] c = "1" -> 1 [] c = "2" -> 2 [] c = "3" -> 3 [] c = "4" -> 4
      [] c = "5" -> 5 [] c = "6" -> 6 [] c = "7" -> 7 [] c = "8" -> 8 [] c = "9" -> 9

Tail2(s, i) == SubSeq(s, i, Len(s))

\* the first position >= i of s holding a character outside set (Len(s)+1 if none)
RECURSIVE SkipIn(_, _, _)
SkipIn(s, i, set) ==
    IF i <= Len(s) /\ s[i] \in set THEN SkipIn(s, i + 1, set) ELSE i

\* the first position >= i of s holding a character of set (Len(s)+1 if none)
RECURSIVE SkipNotIn(_, _, _)
SkipNotIn(s, i, set) ==
    IF i <= Len(s) /\ s[i] \notin set THEN SkipNotIn(s, i + 1, set) ELSE i

RECURSIVE TrimEndIn(_, _)
TrimEndIn(s, set) ==
    IF s # <<>> /\ s[Len(s)] \in set THEN TrimEndIn(SubSeq(s, 1, Len(s) - 1), set) ELSE s

TrimStartIn(s, set) == Tail2(s, SkipIn(s, 1, set))

\* str::trim
Trim(s) == TrimEndIn(TrimStartIn(s, TrimChars), TrimChars)

StartsWith(s, pat) == Len(s) >= Len(pat) /\ SubSeq(s, 1, Len(pat)) = pat

\* str::trim_start_matches(pat): pat removed from the front as often as it is there
RECURSIVE TrimStartMatches(_, _)
TrimStartMatches(s, pat) ==
    IF pat # <<>> /\ StartsWith(s, pat)
    THEN TrimStartMatches(Tail2(s, Len(pat) + 1), pat)
    ELSE s

\* str::find(c): the first position of c in s, 0 if none
Find(s, c) == LET i == SkipNotIn(s, 1, {c}) IN IF i > Len(s) THEN 0 ELSE i

\* str::parse::<usize>: digits, with an optional leading +
RECURSIVE DigitsValue(_, _)
DigitsValue(s, acc) ==
    IF s = <<>> THEN acc ELSE DigitsValue(Tail(s), 10 * acc + DigitValue(s[1]))

ParseUsize(s) ==
    LET d == IF s # <<>> /\ s[1] = "+" THEN Tail(s) ELSE s
    IN IF d # <<>> /\ \A i \in 1..Len(d) : d[i] \in Digits
       THEN [ok |-> TRUE, val |-> DigitsValue(d, 0)]
       ELSE [ok |-> FALSE]

\* F applied to the value of v, which is computed once (a let binding)
Let(v, F(_)) == CHOOSE r \in {F(x) : x \in {v}} : TRUE

Ok(v) == [ok |-> TRUE, val |-> v]
Err(e) == [ok |-> FALSE, err |-> e]

S_int == <<"i", "n", "t">>
S_unsigned_int == <<"u", "n", "s", "i", "g", "n", "e", "d", " ", "i", "n", "t">>
S_char == <<"c", "h", "a", "r">>
S_unsigned_char == <<"u", "n", "s", "i", "g", "n", "e", "d", " ", "c", "h", "a", "r">>
S_short == <<"s", "h", "o", "r", "t">>
S_unsigned_short == <<"u", "n", "s", "i", "g", "n", "e", "d", " ", "s", "h", "o", "r", "t">>
S_long == <<"l", "o", "n", "g">>
S_unsigned_long == <<"u", "n", "s", "i", "g", "n", "e", "d", " ", "l", "o", "n", "g">>
S_float == <<"f", "l", "o", "a", "t">>
S_double == <<"d", "o", "u", "b", "l", "e">>
S_void == <<"v", "o", "i", "d">>
S_bool == <<"b", "o", "o", "l">>
S_int8_t == <<"i", "n", "t", "8", "_", "t">>
S_int16_t == <<"i", "n", "t", "1", "6", "_", "t">>
S_int32_t == <<"i", "n", "t", "3", "2", "_", "t">>
S_int64_t == <<"i", "n", "t", "6", "4", "_", "t">>
S_uint8_t == <<"u", "i", "n", "t", "8", "_", "t">>
S_uint16_t == <<"u", "i", "n", "t", "1", "6", "_", "t">>
S_uint32_t == <<"u", "i", "n", "t", "3", "2", "_", "t">>
S_uint64_t == <<"u", "i", "n", "t", "6", "4", "_", "t">>
S_size_t == <<"s", "i", "z", "e", "_", "t">>
S_ssize_t == <<"s", "s", "i", "z", "e", "_", "t">>
S_const == <<"c", "o", "n", "s", "t">>
S_volatile == <<"v", "o", "l", "a", "t", "i", "l", "e">>
S_restrict == <<"r", "e", "s", "t", "r", "i", "c", "t">>
S_struct == <<"s", "t", "r", "u", "c", "t">>
S_typedef == <<"t", "y", "p", "e", "d", "e", "f">>

(***************************************************************************)
(* ffi_ops.rs: BASIC_TYPES, the registry and lookup_type.                  *)
(***************************************************************************)
BASIC_TYPES ==
    {<<S_int, Scalar("Int")>>,
     <<S_unsigned_int, Scalar("UInt")>>,
     <<S_char, Scalar("Char")>>,
     <<S_unsigned_char, Scalar("UChar")>>,
     <<S_short, Scalar("Short")>>,
     <<S_unsigned_short, Scalar("UShort")>>,
     <<S_long, Scalar("Long")>>,
     <<S_unsigned_long, Scalar("ULong")>>,
     <<S_float, Scalar("Float")>>,
     <<S_double, Scalar("Double")>>,
     <<S_void, Scalar("Void")>>,
     <<S_bool, Scalar("Bool")>>,
     <<S_int8_t, Scalar("Int8")>>,
     <<S_int16_t, Scalar("Int16")>>,
     <<S_int32_t, Scalar("Int32")>>,
     <<S_int64_t, Scalar("Int64")>>,
     <<S_uint8_t, Scalar("UInt8")>>,
     <<S_uint16_t, Scalar("UInt16")>>,
     <<S_uint32_t, Scalar("UInt32")>>,
     <<S_uint64_t, Scalar("UInt64")>>,
     <<S_size_t, Scalar("SizeT")>>,
     <<S_ssize_t, Scalar("SSizeT")>>}

lookup_basic_type(name) ==
    IF \E e \in BASIC_TYPES : e[1] = name
    THEN Ok((CHOOSE e \in BASIC_TYPES : e[1] = name)[2])
    ELSE Err("none")

register_type(reg, name, ctype) ==
    [n \in DOMAIN reg \cup {name} |-> IF n = name THEN ctype ELSE reg[n]]

lookup_registered_type(reg, name) ==
    IF name \in DOMAIN reg THEN Ok(reg[name]) ELSE Err("none")

\* the qualifier stripping of lookup_type
StripQualifiers(name) ==
    Trim(TrimStartMatches(
        Trim(TrimStartMatches(
            Trim(TrimStartMatches(Trim(name), S_const)),
            S_volatile)),
        S_restrict))

\* str::trim_end_matches('*')
PointerBase(stripped) == Trim(TrimEndIn(stripped, {"*"}))

RECURSIVE lookup_type(_, _)
lookup_type(reg, type_name) ==
    Let(StripQualifiers(type_name), LAMBDA stripped :
    Let(lookup_basic_type(stripped), LAMBDA basic :
    IF basic.ok THEN basic
    ELSE IF stripped # <<>> /\ stripped[Len(stripped)] = "*"
    THEN Let(lookup_type(reg, PointerBase(stripped)), LAMBDA inner :
         IF inner.ok THEN Ok(Ptr(inner.val)) ELSE inner)
    ELSE Let(Find(stripped, "["), LAMBDA open :
         IF open # 0
         THEN Let(lookup_type(reg, Trim(SubSeq(stripped, 1, open - 1))), LAMBDA inner :
              Let(Find(stripped, "]"), LAMBDA close :
              IF ~inner.ok THEN inner
              ELSE IF close = 0 THEN Err("Invalid array type (missing ']')")
              ELSE IF close < open THEN Err("panic: slice index")
              ELSE Let(Trim(SubSeq(stripped, open + 1, close - 1)), LAMBDA size_str :
                   Let(ParseUsize(size_str), LAMBDA n :
                   IF size_str = <<"?">> THEN Ok(VLA(inner.val))
                   ELSE IF size_str = <<>> THEN Ok(Array(inner.val, 0))
                   ELSE IF n.ok THEN Ok(Array(inner.val, n.val))
                   ELSE Err("Invalid array size")))))
         ELSE Let(lookup_registered_type(reg, stripped), LAMBDA r :
              IF r.ok THEN r ELSE Err("Unknown type")))))

sizeof_type(reg, type_name) ==
    Let(lookup_type(reg, type_name), LAMBDA t :
    IF t.ok THEN Ok(size(t.val)) ELSE t)

offsetof_field(reg, type_name, field) ==
    Let(lookup_type(reg, type_name), LAMBDA t :
    IF ~t.ok THEN t
    ELSE IF t.val.k \in {"Struct", "Union"}
    THEN LET fs == t.val.fields
             hits == {i \in 1..Len(fs) : fs[i].name = field}
         IN IF hits = {} THEN Err("Field not found")
            ELSE Ok(fs[CHOOSE i \in hits : \A j \in hits : i <= j].offset)
    ELSE Err("Not a struct or union"))

(***************************************************************************)
(* parser.rs: the nom parsers.  A parser takes the text s and a position i *)
(* and returns [ok, pos, ...]; parsers that register types also take and   *)
(* return the registry.                                                    *)
(***************************************************************************)
Fail == [ok |-> FALSE]

multispace0(s, i) == SkipIn(s, i, Space)

multispace1(s, i) ==
    Let(SkipIn(s, i, Space), LAMBDA j :
    IF j > i THEN [ok |-> TRUE, pos |-> j] ELSE Fail)

identifier(s, i) ==
    Let(SkipIn(s, i, IdentChars), LAMBDA j :
    IF j > i THEN [ok |-> TRUE, pos |-> j, val |-> SubSeq(s, i, j - 1)] ELSE Fail)

char(s, i, c) ==
    IF i <= Len(s) /\ s[i] = c THEN [ok |-> TRUE, pos |-> i + 1] ELSE Fail

tag(s, i, pat) ==
    IF i + Len(pat) - 1 <= Len(s) /\ SubSeq(s, i, i + Len(pat) - 1) = pat
    THEN [ok |-> TRUE, pos |-> i + Len(pat)]
    ELSE Fail

\* opt(char(c)): the position after c if it is there, i otherwise
opt_char(s, i, c) == IF i <= Len(s) /\ s[i] = c THEN i + 1 ELSE i

parse_type(reg, s, i) ==
    Let(identifier(s, i), LAMBDA id :
    IF ~id.ok THEN Fail
    ELSE Let(lookup_type(reg, id.val), LAMBDA basic :
         [ok |-> TRUE, pos |-> id.pos,
          val |-> IF basic.ok THEN basic.val ELSE Typedef(id.val, Scalar("Int"))]))

parse_array_size(s, i) ==
    IF ~(i <= Len(s) /\ s[i] = "[") THEN Fail
    ELSE Let(SkipIn(s, i + 1, Digits), LAMBDA j :
         IF j > i + 1 /\ j <= Len(s) /\ s[j] = "]"
         THEN [ok |-> TRUE, pos |-> j + 1, val |-> DigitsValue(SubSeq(s, i + 1, j - 1), 0)]
         ELSE Fail)

parse_field(reg, s, i) ==
    Let(parse_type(reg, s, multispace0(s, i)), LAMBDA t :
    IF ~t.ok THEN Fail ELSE
    Let(multispace1(s, t.pos), LAMBDA sp :
    IF ~sp.ok THEN Fail ELSE
    Let(identifier(s, sp.pos), LAMBDA name :
    IF ~name.ok THEN Fail ELSE
    Let(parse_array_size(s, name.pos), LAMBDA arr :
    [ok |-> TRUE,
     pos |-> multispace0(s, IF arr.ok THEN arr.pos ELSE name.pos),
     val |-> CField(name.val, IF arr.ok THEN Array(t.val, arr.val) ELSE t.val, 0)]))))

\* separated_list0(char(';'), parse_field), after its first element
RECURSIVE separated_rest(_, _, _, _)
separated_rest(reg, s, i, acc) ==
    Let(IF i <= Len(s) /\ s[i] = ";" THEN parse_field(reg, s, i + 1) ELSE Fail, LAMBDA f :
    IF f.ok THEN Let(Append(acc, f.val), LAMBDA acc1 : separated_rest(reg, s, f.pos, acc1))
    ELSE [ok |-> TRUE, pos |-> i, val |-> acc])

parse_struct_fields(reg, s, i) ==
    Let(multispace0(s, i), LAMBDA i1 :
    Let(parse_field(reg, s, i1), LAMBDA first :
    Let(IF first.ok THEN separated_rest(reg, s, first.pos, <<first.val>>)
        ELSE [ok |-> TRUE, pos |-> i1, val |-> <<>>], LAMBDA list :
    [ok |-> TRUE, pos |-> multispace0(s, opt_char(s, list.pos, ";")), val |-> list.val])))

parse_struct(reg, s, i) ==
    Let(tag(s, multispace0(s, i), S_struct), LAMBDA kw :
    IF ~kw.ok THEN Fail ELSE
    Let(multispace1(s, kw.pos), LAMBDA sp :
    IF ~sp.ok THEN Fail ELSE
    Let(identifier(s, sp.pos), LAMBDA name :
    IF ~name.ok THEN Fail ELSE
    Let(char(s, multispace0(s, name.pos), "{"), LAMBDA open :
    IF ~open.ok THEN Fail ELSE
    Let(parse_struct_fields(reg, s, open.pos), LAMBDA fs :
    Let(char(s, fs.pos, "}"), LAMBDA close :
    IF ~close.ok THEN Fail ELSE
    Let(char(s, multispace0(s, close.pos), ";"), LAMBDA semi :
    IF ~semi.ok THEN Fail ELSE
    Let(Struct(name.val, calculate_field_offsets(fs.val)), LAMBDA ctype :
    [ok |-> TRUE, pos |-> multispace0(s, semi.pos),
     reg |-> register_type(reg, name.val, ctype), val |-> ctype]))))))))

parse_typedef(reg, s, i) ==
    Let(tag(s, multispace0(s, i), S_typedef), LAMBDA kw :
    IF ~kw.ok THEN Fail ELSE
    Let(multispace1(s, kw.pos), LAMBDA sp :
    IF ~sp.ok THEN Fail ELSE
    Let(SkipNotIn(s, sp.pos, {";"}), LAMBDA j :
    IF j <= Len(s) THEN [ok |-> TRUE, pos |-> j + 1, reg |-> reg] ELSE Fail)))

parse_function(reg, s, i) ==
    Let(SkipNotIn(s, i, {";", "\n"}), LAMBDA j :
    IF j > i
    THEN [ok |-> TRUE, pos |-> multispace0(s, opt_char(s, j, ";")), reg |-> reg]
    ELSE Fail)

\* alt((parse_struct, parse_typedef, parse_function)) after multispace0
parse_declaration(reg, s, i) ==
    Let(multispace0(s, i), LAMBDA i1 :
    Let(parse_struct(reg, s, i1), LAMBDA st :
    IF st.ok THEN [ok |-> TRUE, pos |-> st.pos, reg |-> st.reg]
    ELSE Let(parse_typedef(reg, s, i1), LAMBDA td :
         IF td.ok THEN td ELSE parse_function(reg, s, i1))))

\* many0(parse_declaration)
RECURSIVE many0_declarations(_, _, _)
many0_declarations(reg, s, i) ==
    Let(parse_declaration(reg, s, i), LAMBDA d :
    IF ~d.ok THEN [ok |-> TRUE, pos |-> i, reg |-> reg]
    ELSE IF d.pos = i THEN [ok |-> FALSE, pos |-> i, reg |-> d.reg]
    ELSE many0_declarations(d.reg, s, d.pos))

parse_cdef(reg, code) ==
    Let(many0_declarations(reg, code, 1), LAMBDA m :
    IF ~m.ok THEN [ok |-> FALSE, err |-> "Parse error", reg |-> m.reg]
    ELSE IF Trim(Tail2(code, m.pos)) = <<>> THEN [ok |-> TRUE, reg |-> m.reg]
    ELSE [ok |-> FALSE, err |-> "Unparsed input remaining", reg |-> m.reg])

(***************************************************************************)
(* The layout workbench: descriptors are built the way the parser          *)
(* (parse_field, parse_struct) and the clients of ctype.rs build them, and *)
(* size() and alignment() are applied to what was built.                   *)
(***************************************************************************)
EmptyReg == [n \in {} |-> None]

(***************************************************************************)
(* The RwLock around TYPE_REGISTRY and the threads that take it.           *)
(***************************************************************************)
Threads == 1..MaxThreads
Unlocked == [writer |-> FALSE, readers |-> 0]
Idle == [pc |-> "idle", name |-> <<>>, ctype |-> None, out |-> None]

\* RwLock::read with every request granted
RwLockReadAlways(l) == TRUE
\* RwLock::read returns once no writer holds the lock
RwLockRead(l) == ~l.writer
\* RwLock::write returns once nobody holds the lock
RwLockWrite(l) == ~l.writer /\ l.readers = 0

\* an entry HashMap::insert has begun to store
Partial(ctype) == [k |-> "Partial", of |-> ctype]

FieldNames == <<"a", "b", "c", "d", "e", "f", "g", "h">>
ClientOffsets == {0, 3, 8}

InnerStruct ==
    Struct(<<"I">>, calculate_field_offsets(
        <<CField(<<"p">>, Scalar("Char"), 0), CField(<<"q">>, Ptr(Scalar("Char")), 0)>>))
InnerUnion ==
    Union(<<"V">>, <<CField(<<"i">>, Array(Scalar("Char"), 3), 0),
                     CField(<<"s">>, Scalar("Short"), 0)>>)

FieldTypes ==
    {Scalar("Char"), Scalar("Int"), Ptr(Scalar("Void")), Array(Scalar("Short"), 3),
     Typedef(<<"T">>, Scalar("Int")), InnerStruct, InnerUnion}

\* parse_field: a field enters the list with offset 0
PushField(t) ==
    /\ ty = None
    /\ Len(fields) < MaxFields
    /\ fields' = Append(fields, CField(<<FieldNames[Len(fields) + 1]>>, t, 0))
    /\ UNCHANGED <<ty, origin>>
    /\ UNCHANGED <<regVars, memVars>>

\* parse_struct: the layout pass, then the Struct descriptor
LayoutStruct ==
    /\ ty = None
    /\ ty' = Struct(<<"S">>, calculate_field_offsets(fields))
    /\ origin' = "parsed"
    /\ UNCHANGED fields
    /\ UNCHANGED <<regVars, memVars>>

\* a client builds a Struct with offsets of its own choice
NewStructAt(offs) ==
    /\ ty = None
    /\ Len(fields) < MaxFields
    /\ ty' = Struct(<<"C">>, [i \in 1..Len(fields) |-> [fields[i] EXCEPT !.offset = offs[i]]])
    /\ origin' = "client"
    /\ UNCHANGED fields
    /\ UNCHANGED <<regVars, memVars>>

\* a client builds a Union; its fields keep offset 0
NewUnion ==
    /\ ty = None
    /\ ty' = Union(<<"U">>, fields)
    /\ origin' = "client"
    /\ UNCHANGED fields
    /\ UNCHANGED <<regVars, memVars>>

NewScalar(kind) ==
    /\ ty = None
    /\ fields = <<>>
    /\ ty' = Scalar(kind)
    /\ origin' = "client"
    /\ UNCHANGED fields
    /\ UNCHANGED <<regVars, memVars>>

\* arrays nest twice over scalars, once over everything else
WrapArray(n) ==
    /\ ty # None
    /\ (ty.k = "Array" => ty.inner.k \in ScalarKinds)
    /\ ty' = Array(ty, n)
    /\ UNCHANGED <<fields, origin>>
    /\ UNCHANGED <<regVars, memVars>>

WrapPtr ==
    /\ ty # None
    /\ ty.k \in ScalarKinds \cup {"Struct", "Union"}
    /\ ty' = Ptr(ty)
    /\ UNCHANGED <<fields, origin>>
    /\ UNCHANGED <<regVars, memVars>>

WrapTypedef ==
    /\ ty # None
    /\ ty.k \in ScalarKinds \cup {"Struct", "Union"}
    /\ ty' = Typedef(<<"A">>, ty)
    /\ UNCHANGED <<fields, origin>>
    /\ UNCHANGED <<regVars, memVars>>

InitLayout ==
    /\ fields = <<>>
    /\ ty = None
    /\ origin = "none"
    /\ registry = EmptyReg
    /\ res = None
    /\ ncalls = 0
    /\ lock = Unlocked
    /\ threads = [t \in Threads |-> Idle]
    /\ vals = <<>>
    /\ heap = <<>>

NextLayout ==
    \/ \E t \in FieldTypes : PushField(t)
    \/ LayoutStruct
    \/ \E offs \in [1..Len(fields) -> ClientOffsets] : NewStructAt(offs)
    \/ NewUnion
    \/ \E kind \in ScalarKinds : NewScalar(kind)
    \/ \E n \in 0..MaxCount : WrapArray(n)
    \/ WrapPtr
    \/ WrapTypedef

SpecLayout == InitLayout /\ [][NextLayout]_vars

(***************************************************************************)
(* cdata.rs: CData::new.  The address is kept abstract: where the bytes    *)
(* live.  std::alloc::alloc may fail and return null.                      *)
(***************************************************************************)
SMALL_BUFFER_SIZE == 64

CDataNew(ctype, sz, allocOk) ==
    IF sz <= SMALL_BUFFER_SIZE /\ sz > 0
    THEN [ctype |-> ctype, ptr |-> "inline", owned |-> TRUE, size |-> sz,
          small_buffer |-> TRUE]
    ELSE IF sz > 0
    THEN [ctype |-> ctype, ptr |-> IF allocOk THEN "heap" ELSE "null", owned |-> TRUE,
          size |-> sz, small_buffer |-> FALSE]
    ELSE [ctype |-> ctype, ptr |-> "null", owned |-> FALSE, size |-> 0,
          small_buffer |-> FALSE]

(***************************************************************************)
(* Host values (LuaValue).  A Number is finite (counted in tenths, so that *)
(* truncation is a real division), or NaN, or an infinity.                 *)
(***************************************************************************)
Nil == [t |-> "Nil"]
Integer(i) == [t |-> "Integer", i |-> i]
Number(tenths) == [t |-> "Number", class |-> "finite", tenths |-> tenths]
NumberNaN == [t |-> "Number", class |-> "nan"]
NumberInf == [t |-> "Number", class |-> "inf"]
NumberNegInf == [t |-> "Number", class |-> "-inf"]
LuaString(s) == [t |-> "String", s |-> s]

\* n >= 0.0 && n.is_finite()
NumberIsCount(v) == v.class = "finite" /\ v.tenths >= 0
\* n as usize, for a finite n >= 0: truncation toward zero
NumberAsUsize(v) == v.tenths \div 10

(***************************************************************************)
(* ffi_ops.rs: new_cdata, for a VLA type with any init and for the other   *)
(* types without init.                                                     *)
(***************************************************************************)
VlaCountClamped(init) ==
    CASE init.t = "Integer" -> Ok(IF init.i >= 0 THEN init.i ELSE 0)
      [] init.t = "Number" -> Ok(IF NumberIsCount(init) THEN NumberAsUsize(init) ELSE 0)
      [] init.t = "Nil" -> Err("VLA requires a size parameter")
      [] OTHER -> Err("VLA requires a numeric size as initialization parameter")

VlaCount(init) ==
    CASE init.t = "Integer" /\ init.i >= 0 -> Ok(init.i)
      [] init.t = "Number" /\ NumberIsCount(init) -> Ok(NumberAsUsize(init))
      [] init.t \in {"Integer", "Number"} /\ ~(init.t = "Integer" /\ init.i >= 0)
            /\ ~(init.t = "Number" /\ NumberIsCount(init)) ->
            Err("VLA size must be non-negative")
      [] init.t = "Nil" -> Err("VLA requires a size parameter")
      [] OTHER -> Err("VLA requires a numeric size as initialization parameter")

ResolveVlaKeepTag(elem, count) == VLA(elem)
ResolveVla(elem, count) == Array(elem, count)

new_cdata(reg, type_name, init, allocOk) ==
    Let(lookup_type(reg, type_name), LAMBDA t :
    IF ~t.ok THEN t
    ELSE IF t.val.k = "VLA"
    THEN Let(VlaCount(init), LAMBDA count :
         IF ~count.ok THEN count
         ELSE Ok(CDataNew(ResolveVla(t.val.inner, count.val),
                          size(t.val.inner) * count.val, allocOk)))
    ELSE Ok(CDataNew(t.val, size(t.val), allocOk)))

(***************************************************************************)
(* The inputs of the calls: declarations and type names, with the text     *)
(* each stands for.                                                        *)
(***************************************************************************)
RECURSIVE Concat(_)
Concat(ss) == IF ss = <<>> THEN <<>> ELSE Head(ss) \o Concat(Tail(ss))

Repeat(s, n) == Concat([i \in 1..n |-> s])

NameP == <<"P">>
NameQ == <<"Q">>
StructNames == {NameP, NameQ}
DeclFieldNames == <<"x", "y", "z">>

FieldSpec(type, arr) == [type |-> type, arr |-> arr]
F_int == FieldSpec(S_int, <<>>)
F_char == FieldSpec(S_char, <<>>)
F_char3 == FieldSpec(S_char, <<"[", "3", "]">>)
F_Q == FieldSpec(NameQ, <<>>)
F_intptr == FieldSpec(S_int \o <<"*">>, <<>>)
F_unsigned_int == FieldSpec(S_unsigned_int, <<>>)

DeclBodies ==
    {<<>>, <<F_int, F_int>>, <<F_char, F_int>>, <<F_char3, F_Q>>,
     <<F_intptr>>, <<F_unsigned_int>>}

\* a struct declaration: fsemi holds the positions of the fields that are
\* followed by a semicolon, nclose the number of semicolons after the brace
Decls ==
    UNION {{[name |-> n, body |-> b, fsemi |-> fs, nclose |-> c] :
                n \in StructNames, fs \in SUBSET (1..Len(b)), c \in 0..2} :
           b \in DeclBodies}

RenderField(d, i) ==
    <<" ">> \o d.body[i].type \o <<" ">> \o <<DeclFieldNames[i]>> \o d.body[i].arr
    \o (IF i \in d.fsemi THEN <<";">> ELSE <<>>)

RenderDecl(d) ==
    S_struct \o <<" ">> \o d.name \o <<" ", "{">>
    \o Concat([i \in 1..Len(d.body) |-> RenderField(d, i)])
    \o <<" ", "}">> \o Repeat(<<";">>, d.nclose)

Qualifiers == {S_const, S_volatile, S_restrict}
QualSeqs == UNION {[1..n -> Qualifiers] : n \in 0..MaxQuals}
BaseNames == {S_int, S_char, NameP}
Suffixes == {<<>>, <<"[", "]">>, <<"[", "?", "]">>, <<"[", "2", "]">>}

TypeNames ==
    {[quals |-> q, base |-> b, stars |-> k, suffix |-> x] :
        q \in QualSeqs, b \in BaseNames, k \in 0..MaxStars, x \in Suffixes}

RenderType(tn) ==
    Concat([i \in 1..Len(tn.quals) |-> tn.quals[i] \o <<" ">>])
    \o tn.base \o Repeat(<<"*">>, tn.stars) \o tn.suffix

TestCount == 16
VlaInits ==
    {Nil, LuaString(<<"3">>), NumberNaN, NumberInf, NumberNegInf, Number(-5),
     Integer(TestCount), Number(10 * TestCount)}
    \cup {Integer(i) : i \in (-1)..MaxVlaCount}
    \cup {Number(5 * j) : j \in 0..(2 * MaxVlaCount + 1)}

IsVlaName(tn) == tn.suffix = <<"[", "?", "]">>

\* the type names and init values of the ffi.new calls
NewArgs ==
    {<<tn, init>> \in {tn \in TypeNames : tn.quals = <<>>} \X VlaInits :
        ~IsVlaName(tn) => init = Nil}

(***************************************************************************)
(* The module's functions as actions on the registry.                      *)
(***************************************************************************)
\* ffi.cdef
Cdef ==
    /\ res = None
    /\ ncalls < MaxCalls
    /\ \E d \in Decls : \E code \in {RenderDecl(d)} :
       \E r \in {parse_cdef(registry, code)} :
          /\ registry' = r.reg
          /\ res' = [op |-> "cdef", decl |-> d, ok |-> r.ok, before |-> registry]
    /\ ncalls' = ncalls + 1
    /\ UNCHANGED <<layoutVars, lockVars, memVars>>

\* lookup_type, as ffi.istype and the others call it
Resolve ==
    /\ res = None
    /\ \E tn \in TypeNames : \E name \in {RenderType(tn)} :
          res' = [op |-> "lookup", tn |-> tn, out |-> lookup_type(registry, name)]
    /\ UNCHANGED <<registry, ncalls>>
    /\ UNCHANGED <<layoutVars, lockVars, memVars>>

\* ffi.sizeof
SizeOf ==
    /\ res = None
    /\ \E name \in StructNames :
          res' = [op |-> "sizeof", name |-> name, out |-> sizeof_type(registry, name)]
    /\ UNCHANGED <<registry, ncalls>>
    /\ UNCHANGED <<layoutVars, lockVars, memVars>>

\* ffi.offsetof
OffsetOf ==
    /\ res = None
    /\ \E name \in StructNames, i \in 1..Len(DeclFieldNames) :
          res' = [op |-> "offsetof", name |-> name, field |-> <<DeclFieldNames[i]>>,
                  out |-> offsetof_field(registry, name, <<DeclFieldNames[i]>>)]
    /\ UNCHANGED <<registry, ncalls>>
    /\ UNCHANGED <<layoutVars, lockVars, memVars>>

\* ffi.new
New ==
    /\ res = None
    /\ \E a \in NewArgs, allocOk \in BOOLEAN : \E name \in {RenderType(a[1])} :
          res' = [op |-> "new", tn |-> a[1], init |-> a[2], allocOk |-> allocOk,
                  out |-> new_cdata(registry, name, a[2], allocOk)]
    /\ UNCHANGED <<registry, ncalls>>
    /\ UNCHANGED <<layoutVars, lockVars, memVars>>

\* the call returns: its outcome goes to the caller
Return ==
    /\ res # None
    /\ res' = None
    /\ UNCHANGED <<registry, ncalls>>
    /\ UNCHANGED <<layoutVars, lockVars, memVars>>

Init ==
    /\ fields = <<>>
    /\ ty = None
    /\ origin = "none"
    /\ registry = EmptyReg
    /\ res = None
    /\ ncalls = 0
    /\ lock = Unlocked
    /\ threads = [t \in Threads |-> Idle]
    /\ vals = <<>>
    /\ heap = <<>>

Next == Cdef \/ Resolve \/ SizeOf \/ OffsetOf \/ New \/ Return

Spec == Init /\ [][Next]_vars

(***************************************************************************)
(* Layout claims.                                                          *)
(***************************************************************************)
IsLeastMultiple(m, a, x) == m % a = 0 /\ m >= x /\ m - x < a

SetMax(S) == CHOOSE m \in S : \A x \in S : x <= m

RECURSIVE SubTypes(_)
SubTypes(t) ==
    {t} \cup
    (CASE t.k \in {"Ptr", "Array", "Typedef", "VLA"} -> SubTypes(t.inner)
       [] t.k \in {"Struct", "Union"} ->
            UNION {SubTypes(t.fields[i].ctype) : i \in 1..Len(t.fields)}
       [] OTHER -> {})

Built == IF ty = None THEN {} ELSE SubTypes(ty)

FieldTypesOf(fs) == [i \in 1..Len(fs) |-> fs[i].ctype]
FieldOffsetsOf(fs) == [i \in 1..Len(fs) |-> fs[i].offset]

\* C1: the layout pass of the struct parser keeps the fields in declaration
\* order, puts the first at offset 0 and every later field at the smallest
\* multiple of its alignment that is >= the end of the field before it;
\* {int x; int y} gets offsets 0, 4 and size 8, {char c; int i} puts i at 4.
ThmC1_LayoutOffsets ==
    (origin = "parsed" /\ ty.k = "Struct") =>
        LET fs == ty.fields IN
        /\ Len(fs) = Len(fields)
        /\ \A i \in 1..Len(fs) :
              /\ fs[i].name = fields[i].name
              /\ fs[i].ctype = fields[i].ctype
              /\ IsLeastMultiple(fs[i].offset, alignment(fs[i].ctype),
                                 IF i = 1 THEN 0
                                 ELSE fs[i - 1].offset + size(fs[i - 1].ctype))
        /\ (Len(fs) >= 1 => fs[1].offset = 0)
        /\ (FieldTypesOf(fs) = <<Scalar("Int"), Scalar("Int")>> =>
                FieldOffsetsOf(fs) = <<0, 4>> /\ size(ty) = 8)
        /\ (FieldTypesOf(fs) = <<Scalar("Char"), Scalar("Int")>> => fs[2].offset = 4)

WitC1_CharIntPtr ==
    /\ origin = "parsed"
    /\ ty.k = "Struct"
    /\ FieldTypesOf(ty.fields) = <<Scalar("Char"), Scalar("Int"), Ptr(Scalar("Void"))>>
    /\ FieldOffsetsOf(ty.fields) = <<0, 4, 8>>

\* C2: a Struct's alignment is the largest alignment among its fields (1 when
\* it has none) and its size is the smallest multiple of that alignment that
\* is >= the largest offset + size among its fields; no fields, size 0.
ThmC2_StructSizeAlign ==
    \A t \in Built :
        t.k = "Struct" =>
            LET fs == t.fields
                aligns == {alignment(fs[i].ctype) : i \in 1..Len(fs)}
                ends == {fs[i].offset + size(fs[i].ctype) : i \in 1..Len(fs)}
            IN IF fs = <<>>
               THEN size(t) = 0 /\ alignment(t) = 1
               ELSE /\ alignment(t) = SetMax(aligns)
                    /\ IsLeastMultiple(size(t), alignment(t), SetMax(ends))

\* a client-built struct whose last field does not end last, with a nested
\* aggregate deciding the alignment
WitC2_LastFieldNotLast ==
    /\ ty.k = "Struct"
    /\ Len(ty.fields) = 2
    /\ ty.fields[1].offset = 8
    /\ ty.fields[1].ctype = InnerStruct
    /\ ty.fields[2].offset = 0
    /\ ty.fields[2].ctype = Scalar("Char")
    /\ size(ty) = 24
    /\ alignment(ty) = 8

ThmC4_ArraySizeAlign ==
    \A t \in Built :
        t.k = "Array" =>
            /\ size(t) = t.count * size(t.inner)
            /\ alignment(t) = alignment(t.inner)
            /\ (t.count = 0 => size(t) = 0)
            /\ (t.inner.k = "Array" =>
                    size(t) = t.count * t.inner.count * size(t.inner.inner))

WitC4_NestedArray ==
    /\ ty = Array(Array(Scalar("Int"), 3), 2)
    /\ size(ty) = 24
    /\ alignment(ty) = 4

(***************************************************************************)
(* Storage.  A block is a boxed small buffer or a heap block: its bytes,   *)
(* the alignment it was requested with and the layouts it was released     *)
(* with.  An address is a block and an offset in it; block 0 stands for    *)
(* the addresses that no block of the model backs, offset 0 there being    *)
(* the null pointer.                                                       *)
(***************************************************************************)
MaxVals == 2

Address(r, off) == [r |-> r, off |-> off]
NullPtr == Address(0, 0)

\* the addresses as integers: the blocks lie BlockSpan apart
BlockSpan == 4096
AddressBits(a) == a.r * BlockSpan + a.off
AddressOfBits(i) == Address(i \div BlockSpan, i % BlockSpan)

Layout(sz, align) == [size |-> sz, align |-> align]

\* Box::new([0u8; SMALL_BUFFER_SIZE]) and std::alloc::alloc(layout): the box is
\* zeroed, the heap block holds whatever the allocator left there
Block(kind, layout, fill) ==
    [kind |-> kind, bytes |-> [i \in 1..layout.size |-> fill], layout |-> layout,
     released |-> <<>>]

\* what std::alloc::alloc may leave in a fresh block
Garbage == {0, 170}

UserData(id) == [t |-> "UserData", id |-> id]
Boolean(b) == [t |-> "Boolean", b |-> b]

\* CData::new, with the storage it takes: next is the number of the block
\* the value gets if it needs one
CDataPlace(cd, next) ==
    [ctype |-> cd.ctype,
     ptr |-> IF cd.ptr = "null" THEN NullPtr ELSE Address(next, 0),
     owned |-> cd.owned,
     size |-> cd.size,
     small_buffer |-> IF cd.small_buffer THEN next ELSE 0]

CDataBlocks(cd, fill) ==
    IF cd.ptr = "inline" THEN <<Block("box", Layout(SMALL_BUFFER_SIZE, 1), 0)>>
    ELSE IF cd.ptr = "heap"
    THEN <<Block("heap", Layout(cd.size, alignment(cd.ctype)), fill)>>
    ELSE <<>>

\* CData::from_ptr
from_ptr(ctype, ptr, owned) ==
    [ctype |-> ctype, ptr |-> ptr, owned |-> owned, size |-> size(ctype),
     small_buffer |-> 0]

\* ffi.cast: the address of a cdata, or an integer taken as an address
cast_cdata(reg, type_name, value, vs) ==
    Let(lookup_type(reg, type_name), LAMBDA t :
    IF ~t.ok THEN t
    ELSE IF value.t = "Integer" THEN Ok(from_ptr(t.val, AddressOfBits(value.i), FALSE))
    ELSE IF value.t = "UserData" THEN Ok(from_ptr(t.val, vs[value.id].ptr, FALSE))
    ELSE Err("Cannot cast this value"))

\* ffi.addressof
get_address(cd) == from_ptr(Ptr(cd.ctype), cd.ptr, FALSE)

\* #[derive(Clone)] on CData: every field is cloned, the box into a new box;
\* next is the number of that box
CDataClone(cd, next) ==
    [cd EXCEPT !.small_buffer = IF cd.small_buffer # 0 THEN next ELSE 0]

\* Drop for CData: whether std::alloc::dealloc runs
DropDeallocs(cd) ==
    cd.owned /\ cd.ptr # NullPtr /\ cd.size > 0 /\ cd.small_buffer = 0

\* the heap after cd is dropped: dealloc(ptr, layout) releases the block the
\* address is in, and the box, if cd has one, goes with it
Release(hp, r, layout) ==
    [hp EXCEPT ![r].released = Append(hp[r].released, layout)]

DropStorage(hp, cd) ==
    Let(IF DropDeallocs(cd) /\ cd.ptr.r # 0
        THEN Release(hp, cd.ptr.r, Layout(cd.size, alignment(cd.ctype)))
        ELSE hp, LAMBDA h1 :
    IF cd.small_buffer # 0
    THEN Release(h1, cd.small_buffer, Layout(SMALL_BUFFER_SIZE, 1))
    ELSE h1)

(***************************************************************************)
(* Values in memory, byte by byte.  A host integer is an i64: Integer(i)    *)
(* when it fits the integers of the model, its eight little-endian bytes   *)
(* otherwise.                                                              *)
(***************************************************************************)
IntegerWide(b8) == [t |-> "Integer", i64 |-> b8]
\* 2^e as a host float, for the exponents that tenths cannot reach
NumberPow2(e) == [t |-> "Number", class |-> "pow2", e |-> e]

KindsSigned ==
    {"Char", "Int8", "Short", "Int16", "Int", "Int32", "Long", "LongLong", "Int64",
     "SSizeT", "OffT", "PidT", "SusecondsT", "BlksizeT", "BlkcntT", "TimeT"}
KindsInteger == Kinds1 \cup Kinds2 \cup Kinds4 \cup KindsLong \cup Kinds8
                \cup KindsSizeT \cup KindsPosix

\* size_of the Rust type that read_ctype_value and write_numeric use for a kind
NativeBytes(kind) ==
    CASE kind \in Kinds1 -> 1
      [] kind \in Kinds2 -> 2
      [] kind \in Kinds4 \cup {"GidT", "ModeT", "UidT", "PidT", "UsecondsT"} -> 4
      [] OTHER -> 8

Pow2(e) == IF e = 0 THEN 1 ELSE 2 ^ e
Pow256(k) == IF k = 0 THEN 1 ELSE 256 ^ k

\* the two's complement of i, least significant byte first
I64Bytes(i) ==
    [k \in 1..8 |-> IF k <= 4 THEN (i \div Pow256(k - 1)) % 256
                    ELSE IF i < 0 THEN 255 ELSE 0]

IntegerBytes(v) == IF "i64" \in DOMAIN v THEN v.i64 ELSE I64Bytes(v.i)

MaxBytes(n, signed) == [k \in 1..n |-> IF signed /\ k = n THEN 127 ELSE 255]
MinBytes(n, signed) == [k \in 1..n |-> IF signed /\ k = n THEN 128 ELSE 0]

\* i as $ty: the low bytes
IntegerAs(v, n) == SubSeq(IntegerBytes(v), 1, n)

\* f64::trunc of a number counted in tenths
Trunc(tenths) == IF tenths >= 0 THEN tenths \div 10 ELSE -((-tenths) \div 10)

\* n as $ty for a float: truncation toward zero, saturation at the bounds of
\* the type, 0 for NaN
NumberAs(v, n, signed) ==
    CASE v.class = "nan" -> [k \in 1..n |-> 0]
      [] v.class = "inf" -> MaxBytes(n, signed)
      [] v.class = "-inf" -> MinBytes(n, signed)
      [] v.class = "pow2" ->
            IF v.e >= 8 * n - (IF signed THEN 1 ELSE 0) THEN MaxBytes(n, signed)
            ELSE [k \in 1..n |-> IF k = (v.e \div 8) + 1 THEN Pow2(v.e % 8) ELSE 0]
      [] v.class = "finite" ->
            LET t == Trunc(v.tenths) IN
            IF ~signed /\ t < 0 THEN MinBytes(n, signed)
            ELSE IF n <= 2 /\ signed /\ t < -(Pow256(n) \div 2) THEN MinBytes(n, signed)
            ELSE IF n <= 2 /\ signed /\ t >= Pow256(n) \div 2 THEN MaxBytes(n, signed)
            ELSE IF n <= 2 /\ ~signed /\ t >= Pow256(n) THEN MaxBytes(n, signed)
            ELSE SubSeq(I64Bytes(t), 1, n)

\* the value of little-endian bytes, unsigned
RECURSIVE LEValue(_)
LEValue(b) == IF b = <<>> THEN 0 ELSE b[1] + 256 * LEValue(Tail(b))

\* a native integer widened to i64: sign or zero extension
Extend(b, signed) ==
    b \o [k \in 1..(8 - Len(b)) |-> IF signed /\ b[Len(b)] >= 128 THEN 255 ELSE 0]

\* LuaValue::Integer of the i64 with these bytes
IntegerOfBytes(b8) ==
    IF SubSeq(b8, 5, 8) = <<0, 0, 0, 0>> /\ b8[4] < 128
    THEN Integer(LEValue(SubSeq(b8, 1, 4)))
    ELSE IF SubSeq(b8, 5, 8) = <<255, 255, 255, 255>> /\ b8[4] >= 128
    THEN Integer(-1 - LEValue([k \in 1..4 |-> 255 - b8[k]]))
    ELSE IntegerWide(b8)

\* the bytes of an f32 or f64.  The format is the model's own, not IEEE 754:
\* a class byte, then the tenths (the exponent for a power of two)
FloatBytes(v, n) ==
    CASE v.class = "finite" -> <<1>> \o SubSeq(I64Bytes(v.tenths), 1, 3) \o [k \in 1..(n - 4) |-> 0]
      [] v.class = "nan" -> <<2>> \o [k \in 1..(n - 1) |-> 0]
      [] v.class = "inf" -> <<3>> \o [k \in 1..(n - 1) |-> 0]
      [] v.class = "-inf" -> <<4>> \o [k \in 1..(n - 1) |-> 0]
      [] v.class = "pow2" -> <<5, v.e>> \o [k \in 1..(n - 2) |-> 0]

FloatOfBytes(b) ==
    CASE b[1] = 1 -> Number(IntegerOfBytes(Extend(SubSeq(b, 2, 4), TRUE)).i)
      [] b[1] = 2 -> NumberNaN
      [] b[1] = 3 -> NumberInf
      [] b[1] = 4 -> NumberNegInf
      [] b[1] = 5 -> NumberPow2(b[2])
      [] OTHER -> Number(0)

\* i as f64
IntegerAsNumber(v) == Number(10 * v.i)

(***************************************************************************)
(* cdata.rs: reading and writing through an address.  An access is defined *)
(* when it lies in a block that has not been released; the actions make    *)
(* the defined accesses only, except where a claim is about the others.    *)
(***************************************************************************)
Offset(ptr, d) == Address(ptr.r, ptr.off + d)

InBlock(hp, ptr, n) ==
    /\ ptr.r \in 1..Len(hp)
    /\ hp[ptr.r].released = <<>>
    /\ ptr.off + n <= Len(hp[ptr.r].bytes)

Load(hp, ptr, n) == SubSeq(hp[ptr.r].bytes, ptr.off + 1, ptr.off + n)

Store(hp, ptr, b) ==
    [hp EXCEPT ![ptr.r].bytes =
        [k \in DOMAIN @ |-> IF k > ptr.off /\ k <= ptr.off + Len(b)
                            THEN b[k - ptr.off] ELSE @[k]]]

\* LuaValue::UserData of a new cdata
CDataValue(cd) == [t |-> "CData", cd |-> cd]

\* the bytes a read or a write of this type touches
AccessBytes(ctype) ==
    CASE ctype.k \in KindsInteger -> NativeBytes(ctype.k)
      [] ctype.k = "Float" -> 4
      [] ctype.k = "Double" -> 8
      [] ctype.k = "Bool" -> 1
      [] ctype.k = "Ptr" -> 8
      [] OTHER -> 0

read_ctype_value(hp, ptr, ctype) ==
    CASE ctype.k \in KindsInteger ->
            IntegerOfBytes(Extend(Load(hp, ptr, NativeBytes(ctype.k)),
                                  ctype.k \in KindsSigned))
      [] ctype.k \in {"Float", "Double"} -> FloatOfBytes(Load(hp, ptr, AccessBytes(ctype)))
      [] ctype.k = "Bool" -> Boolean(Load(hp, ptr, 1)[1] # 0)
      [] OTHER -> CDataValue(from_ptr(ctype, ptr, FALSE))

\* a read of a bool is defined for the bytes 0 and 1 only
ReadDefined(hp, ptr, ctype) ==
    /\ InBlock(hp, ptr, AccessBytes(ctype))
    /\ ctype.k = "Bool" => Load(hp, ptr, 1)[1] \in {0, 1}

\* write_numeric!: the bytes of value as $ty
write_numeric(kind, value) ==
    IF value.t = "Integer"
    THEN Ok(IF kind \in {"Float", "Double"}
            THEN FloatBytes(IntegerAsNumber(value), IF kind = "Float" THEN 4 ELSE 8)
            ELSE IntegerAs(value, NativeBytes(kind)))
    ELSE IF value.t = "Number"
    THEN Ok(IF kind \in {"Float", "Double"}
            THEN FloatBytes(value, IF kind = "Float" THEN 4 ELSE 8)
            ELSE NumberAs(value, NativeBytes(kind), kind \in KindsSigned))
    ELSE Err("Expected number")

\* write_value_to_ptr of cdata.rs: the bytes to store, or the error
cdata_write_bytes(ctype, value, vs) ==
    CASE ctype.k \in KindsInteger \cup {"Float", "Double"} -> write_numeric(ctype.k, value)
      [] ctype.k = "Bool" ->
            IF value.t = "Boolean" THEN Ok(<<IF value.b THEN 1 ELSE 0>>)
            ELSE IF value.t = "Integer"
            THEN Ok(<<IF IntegerBytes(value) # I64Bytes(0) THEN 1 ELSE 0>>)
            ELSE Err("Expected boolean or integer")
      [] ctype.k = "Ptr" ->
            IF value.t = "Integer" THEN Ok(IntegerAs(value, 8))
            ELSE IF value.t = "UserData"
            THEN Ok(I64Bytes(AddressBits(vs[value.id].ptr)))
            ELSE Err("Expected pointer value (integer or cdata)")
      [] OTHER -> Err("Cannot assign value to type")

cdata_write_value_to_ptr(hp, ptr, ctype, value, vs) ==
    Let(cdata_write_bytes(ctype, value, vs), LAMBDA b :
    IF b.ok THEN Ok(Store(hp, ptr, b.val)) ELSE b)

\* the field of a struct or union type with this name, None without one
RECURSIVE FindField(_, _)
FindField(fs, name) ==
    IF fs = <<>> THEN None
    ELSE IF Head(fs).name = name THEN Head(fs)
    ELSE FindField(Tail(fs), name)

\* the place a key of __index or __newindex stands for: its address and type
Place(cd, key) ==
    IF key.t = "String"
    THEN IF cd.ctype.k \in {"Struct", "Union"}
         THEN Let(FindField(cd.ctype.fields, key.s), LAMBDA f :
              IF f = None THEN Err("Unknown field")
              ELSE Ok([ptr |-> Offset(cd.ptr, f.offset), ctype |-> f.ctype]))
         ELSE Err("Not a struct or union")
    ELSE IF key.t = "Integer"
    THEN IF cd.ctype.k \in {"Array", "Ptr"}
         THEN Ok([ptr |-> Offset(cd.ptr, key.i * size(cd.ctype.inner)),
                  ctype |-> cd.ctype.inner])
         ELSE Err("Not an array or pointer")
    ELSE Err("Invalid index type")

\* LuaMetaMethod::Index
Index(hp, cd, key) ==
    Let(Place(cd, key), LAMBDA p :
    IF p.ok THEN Ok(read_ctype_value(hp, p.val.ptr, p.val.ctype)) ELSE p)

\* LuaMetaMethod::NewIndex
NewIndex(hp, cd, key, value, vs) ==
    Let(Place(cd, key), LAMBDA p :
    IF p.ok THEN cdata_write_value_to_ptr(hp, p.val.ptr, p.val.ctype, value, vs) ELSE p)

(***************************************************************************)
(* ffi_ops.rs: copy_memory and cdata_to_string.  The bytes of a host       *)
(* string are the codes of its characters.                                 *)
(***************************************************************************)
Alphabet == <<"a", "b", "c", "d", "e", "f", "g", "h">>
CharCode(c) == 96 + (CHOOSE i \in 1..Len(Alphabet) : Alphabet[i] = c)
as_bytes(s) == [i \in 1..Len(s) |-> CharCode(s[i])]

\* String::from_utf8_lossy, a byte at a time: what is not a character of the
\* alphabet comes out as the replacement character
ReplacementChar == "U+FFFD"
to_string_lossy(b) ==
    [i \in 1..Len(b) |-> IF b[i] - 96 \in 1..Len(Alphabet) THEN Alphabet[b[i] - 96]
                         ELSE ReplacementChar]

\* the number of bytes before the first zero byte, Len(b) when there is none
RECURSIVE StrLen(_)
StrLen(b) == IF b = <<>> \/ Head(b) = 0 THEN 0 ELSE 1 + StrLen(Tail(b))

\* the bytes from an address to the end of its block
BytesFrom(hp, ptr) == SubSeq(hp[ptr.r].bytes, ptr.off + 1, Len(hp[ptr.r].bytes))

\* CStr::from_ptr scans up to the first zero byte, wherever that is; the scan
\* is defined when the block holds a zero byte at or after the address
ScanDefined(hp, ptr) ==
    /\ InBlock(hp, ptr, 1)
    /\ StrLen(BytesFrom(hp, ptr)) < Len(BytesFrom(hp, ptr))

cdata_to_string(hp, cd) ==
    IF cd.ptr = NullPtr THEN Err("NULL pointer")
    ELSE IF cd.ctype.k \in {"Ptr", "Array", "VLA"}
    THEN IF cd.ctype.inner.k \in {"Char", "UChar"}
         THEN Let(BytesFrom(hp, cd.ptr), LAMBDA b :
              Ok(to_string_lossy(SubSeq(b, 1, StrLen(b)))))
         ELSE Err("Not a string pointer")
    ELSE Err("Not a string")

CopyResult(ok, val, hp) == [ok |-> ok, val |-> val, hp |-> hp]

\* copy_memory(dst, src, len): len is Nil when the call gives none
copy_memory(hp, vs, dst, src, len) ==
    IF src.t = "String"
    THEN Let(as_bytes(src.s), LAMBDA bytes :
         Let(IF len = Nil THEN Len(bytes) ELSE len.i, LAMBDA copy_len :
         IF copy_len > vs[dst].size
         THEN CopyResult(FALSE, "Buffer overflow", hp)
         ELSE Let(Store(hp, vs[dst].ptr, SubSeq(bytes, 1, copy_len)), LAMBDA h1 :
              CopyResult(TRUE, copy_len,
                         IF len = Nil /\ copy_len < vs[dst].size
                         THEN Store(h1, Offset(vs[dst].ptr, copy_len), <<0>>)
                         ELSE h1))))
    ELSE IF src.t = "UserData"
    THEN IF len = Nil THEN CopyResult(FALSE, "Length required for cdata copy", hp)
         ELSE CopyResult(TRUE, len.i,
                         Store(hp, vs[dst].ptr, Load(hp, vs[src.id].ptr, len.i)))
    ELSE CopyResult(FALSE, "Invalid source for copy", hp)

\* fill_memory(cdata, len, value): std::ptr::write_bytes, always Ok
fill_memory(hp, cd, len, value) == Store(hp, cd.ptr, [k \in 1..len |-> value])

\* std::ptr::write_bytes is defined when the range lies in a block
FillDefined(hp, cd, len) == InBlock(hp, cd.ptr, len)

\* std::ptr::copy_nonoverlapping is defined when both ranges lie in blocks and
\* do not overlap, and, for a string, when the length is within the string
CopyDefined(hp, vs, dst, src, len) ==
    IF src.t = "String"
    THEN /\ len # Nil => len.i <= Len(src.s)
         /\ \E n \in {IF len = Nil THEN Len(src.s) ELSE len.i} :
               n <= vs[dst].size =>
                  InBlock(hp, vs[dst].ptr,
                          IF len = Nil /\ n < vs[dst].size THEN n + 1 ELSE n)
    ELSE IF src.t = "UserData" /\ len # Nil
    THEN /\ InBlock(hp, vs[dst].ptr, len.i)
         /\ InBlock(hp, vs[src.id].ptr, len.i)
         /\ vs[dst].ptr.r # vs[src.id].ptr.r
    ELSE TRUE

(***************************************************************************)
(* ffi_ops.rs: write_value_to_ptr and initialize_cdata.  A host table is   *)
(* its sequence part and its named part; a key it does not hold reads as   *)
(* nil.  A failed write returns the error with the heap as the writes      *)
(* before it left it.                                                      *)
(***************************************************************************)
Table(arr, rec) == [t |-> "Table", arr |-> arr, rec |-> rec]
NoKeys == [n \in {} |-> Nil]

\* table.get::<LuaValue>(i + 1)
TableGetIndex(table, i) == IF i \in DOMAIN table.arr THEN table.arr[i] ELSE Nil
\* table.get::<LuaValue>(field.name.as_str())
TableGetName(table, name) == IF name \in DOMAIN table.rec THEN table.rec[name] ELSE Nil

WriteErr(e, hp) == [ok |-> FALSE, err |-> e, val |-> hp]

\* s.as_bytes().as_ptr(): the bytes of a host string lie outside every block
StringPtr(s) == Address(BlockSpan - 1, 0)

\* the scalar arms of write_value_to_ptr of ffi_ops.rs: the bytes to store
ffi_ops_write_bytes(ctype, value, vs) ==
    CASE ctype.k \in KindsInteger \cup {"Float", "Double"} -> write_numeric(ctype.k, value)
      [] ctype.k = "Bool" ->
            IF value.t = "Boolean" THEN Ok(<<IF value.b THEN 1 ELSE 0>>)
            ELSE IF value.t = "Integer"
            THEN Ok(<<IF IntegerBytes(value) # I64Bytes(0) THEN 1 ELSE 0>>)
            ELSE Err("Expected boolean or integer")
      [] ctype.k = "Ptr" ->
            IF value.t = "Integer" THEN Ok(IntegerAs(value, 8))
            ELSE IF value.t = "UserData"
            THEN Ok(I64Bytes(AddressBits(vs[value.id].ptr)))
            ELSE IF value.t = "String" /\ ctype.inner.k \in {"Char", "UChar"}
            THEN Ok(I64Bytes(AddressBits(StringPtr(value.s))))
            ELSE IF value.t = "Nil" THEN Ok(I64Bytes(0))
            ELSE Err("Expected pointer value (integer, cdata, string, or nil)")
      [] ctype.k = "Function" ->
            IF value.t = "Integer" THEN Ok(IntegerAs(value, 8))
            ELSE IF value.t = "UserData"
            THEN Ok(I64Bytes(AddressBits(vs[value.id].ptr)))
            ELSE Err("Function pointer requires integer or cdata")
      [] ctype.k = "VLA" -> Err("VLA must be instantiated with a size before use")
      [] OTHER -> Err("Cannot assign value to void type")

\* the String arm of the Array arm: min(count, len) bytes, then a zero byte
\* if there is room
WriteString(hp, ptr, ctype, s) ==
    IF ctype.inner.k \in {"Char", "UChar"}
    THEN \* copy_len = count.min(bytes.len())
         Let(IF ctype.count <= Len(s) THEN ctype.count ELSE Len(s), LAMBDA copy_len :
         Ok(Store(hp, ptr, SubSeq(as_bytes(s), 1, copy_len)
                           \o (IF copy_len < ctype.count THEN <<0>> ELSE <<>>))))
    ELSE WriteErr("String initialization only supported for char arrays", hp)

RECURSIVE ffi_ops_write_value_to_ptr(_, _, _, _, _)
RECURSIVE WriteElements(_, _, _, _, _, _)
RECURSIVE WriteFields(_, _, _, _, _, _)

\* for i in 0..count, from i on: element i takes the table's value at i + 1
WriteElements(hp, ptr, ctype, table, i, vs) ==
    IF i >= ctype.count THEN Ok(hp)
    ELSE Let(ffi_ops_write_value_to_ptr(hp, Offset(ptr, i * size(ctype.inner)),
                                        ctype.inner, TableGetIndex(table, i + 1), vs),
             LAMBDA w :
             IF w.ok THEN WriteElements(w.val, ptr, ctype, table, i + 1, vs) ELSE w)

\* for field in fields, from the i-th on: each takes the table's value at
\* its name
WriteFields(hp, ptr, fs, table, i, vs) ==
    IF i > Len(fs) THEN Ok(hp)
    ELSE Let(ffi_ops_write_value_to_ptr(hp, Offset(ptr, fs[i].offset), fs[i].ctype,
                                        TableGetName(table, fs[i].name), vs),
             LAMBDA w :
             IF w.ok THEN WriteFields(w.val, ptr, fs, table, i + 1, vs) ELSE w)

\* write_value_to_ptr of ffi_ops.rs
ffi_ops_write_value_to_ptr(hp, ptr, ctype, value, vs) ==
    CASE ctype.k = "Array" ->
            IF value.t = "Table" THEN WriteElements(hp, ptr, ctype, value, 0, vs)
            ELSE IF value.t = "String" THEN WriteString(hp, ptr, ctype, value.s)
            ELSE WriteErr("Array initialization requires a table or string", hp)
      [] ctype.k = "Struct" ->
            IF value.t = "Table" THEN WriteFields(hp, ptr, ctype.fields, value, 1, vs)
            ELSE WriteErr("Struct initialization requires a table", hp)
      [] ctype.k = "Union" ->
            \* the loop breaks after the first field
            IF value.t = "Table"
            THEN WriteFields(hp, ptr, SubSeq(ctype.fields, 1, 1), value, 1, vs)
            ELSE WriteErr("Union initialization requires a table", hp)
      [] ctype.k = "Typedef" -> ffi_ops_write_value_to_ptr(hp, ptr, ctype.inner, value, vs)
      [] OTHER ->
            Let(ffi_ops_write_bytes(ctype, value, vs), LAMBDA b :
            IF b.ok THEN Ok(Store(hp, ptr, b.val)) ELSE WriteErr(b.err, hp))

\* initialize_cdata
initialize_cdata(hp, cd, value, vs) ==
    IF cd.ptr = NullPtr \/ cd.size = 0 THEN Ok(hp)
    ELSE CASE cd.ctype.k \in {"Struct", "Union"} ->
                IF value.t = "Table"
                THEN WriteFields(hp, cd.ptr, cd.ctype.fields, value, 1, vs)
                ELSE WriteErr("Struct/union initialization requires a table", hp)
           [] cd.ctype.k = "Array" ->
                IF value.t = "Table" THEN WriteElements(hp, cd.ptr, cd.ctype, value, 0, vs)
                ELSE WriteErr("Array initialization requires a table", hp)
           [] OTHER -> ffi_ops_write_value_to_ptr(hp, cd.ptr, cd.ctype, value, vs)

\* new_cdata with the storage of the value: CData::new, then initialize_cdata
\* when an init value came with a type that is no VLA; a failed
\* initialisation drops the value.  fresh is the heap before the first write
NewInitialized(hp, reg, type_name, init, fill, vs) ==
    Let(new_cdata(reg, type_name, init, TRUE), LAMBDA r :
    IF ~r.ok THEN [out |-> r, heap |-> hp, fresh |-> hp]
    ELSE Let(CDataPlace(r.val, Len(hp) + 1), LAMBDA cd :
         Let(hp \o CDataBlocks(r.val, fill), LAMBDA h1 :
         Let(IF init = Nil \/ lookup_type(reg, type_name).val.k = "VLA" THEN Ok(h1)
             ELSE initialize_cdata(h1, cd, init, vs), LAMBDA w :
         IF w.ok THEN [out |-> Ok(cd), heap |-> w.val, fresh |-> h1]
         ELSE [out |-> [ok |-> FALSE, err |-> w.err, val |-> cd],
               heap |-> DropStorage(w.val, cd), fresh |-> h1]))))

(***************************************************************************)
(* The life of the values: ffi.new, ffi.cast, ffi.addressof, reads through *)
(* __index, Clone and Drop, over the values made so far (vals) and the     *)
(* blocks they took (heap).  The host drops a value when it collects it,   *)
(* at any time.                                                            *)
(***************************************************************************)
LifeDecl == [name |-> NameP, body |-> <<F_int, F_char3>>, fsemi |-> {1, 2}, nclose |-> 1]
LifeReg == parse_cdef(EmptyReg, RenderDecl(LifeDecl)).reg

S_vla == <<"[", "?", "]">>
LifeNewNames == {S_int, NameP, S_long \o S_vla}
LifeNewArgs ==
    {<<name, init>> \in LifeNewNames \X VlaInits : name # S_long \o S_vla => init = Nil}
LifeCastNames == {S_int \o <<"*">>, S_int \o S_vla, NameP}
LifeKeys == {LuaString(<<"x">>), LuaString(<<"y">>), Integer(0), Integer(1)}

Value(cd) == [cd |-> cd, live |-> TRUE]
CDatas(vs) == [i \in DOMAIN vs |-> vs[i].cd]
Live(vs) == {i \in DOMAIN vs : vs[i].live}

\* ffi.new
LifeNew ==
    /\ res = None
    /\ Len(vals) < MaxVals
    /\ \E a \in LifeNewArgs, allocOk \in BOOLEAN, fill \in Garbage :
       \E r \in {new_cdata(registry, a[1], a[2], allocOk)} :
          /\ res' = [op |-> "new", name |-> a[1], init |-> a[2], allocOk |-> allocOk,
                     out |-> r]
          /\ IF r.ok
             THEN /\ vals' = Append(vals, Value(CDataPlace(r.val, Len(heap) + 1)))
                  /\ heap' = heap \o CDataBlocks(r.val, fill)
             ELSE UNCHANGED <<vals, heap>>
    /\ UNCHANGED <<registry, ncalls, layoutVars, lockVars>>

\* ffi.cast
LifeCast ==
    /\ res = None
    /\ Len(vals) < MaxVals
    /\ \E name \in LifeCastNames, v \in {Integer(0)} \cup {UserData(i) : i \in Live(vals)} :
       \E r \in {cast_cdata(registry, name, v, CDatas(vals))} :
          /\ res' = [op |-> "cast", name |-> name, value |-> v, out |-> r]
          /\ vals' = IF r.ok THEN Append(vals, Value(r.val)) ELSE vals
    /\ UNCHANGED <<registry, ncalls, layoutVars, lockVars, heap>>

\* ffi.addressof
LifeAddressOf ==
    /\ res = None
    /\ Len(vals) < MaxVals
    /\ \E i \in Live(vals) :
          /\ res' = [op |-> "addressof", of |-> i]
          /\ vals' = Append(vals, Value(get_address(vals[i].cd)))
    /\ UNCHANGED <<registry, ncalls, layoutVars, lockVars, heap>>

\* value[key]: a read of a compound type makes a value
LifeIndex ==
    /\ res = None
    /\ Len(vals) < MaxVals
    /\ \E i \in Live(vals), key \in LifeKeys :
       \E p \in {Place(vals[i].cd, key)} :
          /\ p.ok => ReadDefined(heap, p.val.ptr, p.val.ctype)
          /\ \E r \in {Index(heap, vals[i].cd, key)} :
                /\ res' = [op |-> "index", of |-> i, key |-> key, out |-> r]
                /\ vals' = IF r.ok /\ r.val.t = "CData"
                           THEN Append(vals, Value(r.val.cd)) ELSE vals
    /\ UNCHANGED <<registry, ncalls, layoutVars, lockVars, heap>>

\* CData::clone
LifeClone ==
    /\ res = None
    /\ Len(vals) < MaxVals
    /\ \E i \in Live(vals) : \E c \in {CDataClone(vals[i].cd, Len(heap) + 1)} :
          /\ res' = [op |-> "clone", of |-> i]
          /\ vals' = Append(vals, Value(c))
          /\ heap' = IF c.small_buffer # 0
                     THEN Append(heap, [heap[vals[i].cd.small_buffer]
                                            EXCEPT !.released = <<>>])
                     ELSE heap
    /\ UNCHANGED <<registry, ncalls, layoutVars, lockVars>>

\* Drop for CData
LifeDrop ==
    /\ res = None
    /\ \E i \in Live(vals) :
          /\ res' = [op |-> "drop", of |-> i]
          /\ vals' = [vals EXCEPT ![i].live = FALSE]
          /\ heap' = DropStorage(heap, vals[i].cd)
    /\ UNCHANGED <<registry, ncalls, layoutVars, lockVars>>

InitLife ==
    /\ fields = <<>>
    /\ ty = None
    /\ origin = "none"
    /\ registry = LifeReg
    /\ res = None
    /\ ncalls = 0
    /\ lock = Unlocked
    /\ threads = [t \in Threads |-> Idle]
    /\ vals = <<>>
    /\ heap = <<>>

NextLife ==
    LifeNew \/ LifeCast \/ LifeAddressOf \/ LifeIndex \/ LifeClone \/ LifeDrop \/ Return

SpecLife == InitLife /\ [][NextLife]_vars

(***************************************************************************)
(* Bytes and strings: ffi.new and ffi.cast of character buffers, ffi.copy  *)
(* and ffi.string over them.                                               *)
(***************************************************************************)
S_char2 == S_char \o <<"[", "2", "]">>
S_char8 == S_char \o <<"[", "8", "]">>
S_int2 == S_int \o <<"[", "2", "]">>
S_charptr == S_char \o <<"*">>
BytesNewNames == {S_char2, S_char8, S_int2}
CopyStrings == {<<"a", "b">>, <<"a", "b", "c", "d", "e", "f", "g", "h">>}
CopyLens == {Nil} \cup {Integer(Len(str)) : str \in CopyStrings}
FillLens == {0} \cup {Len(str) : str \in CopyStrings}
FillBytes == {0, CharCode("h")}

\* ffi.new
BytesNew ==
    /\ res = None
    /\ Len(vals) < MaxVals
    /\ \E name \in BytesNewNames : \E r \in {new_cdata(registry, name, Nil, TRUE)} :
          /\ res' = [op |-> "new", name |-> name, out |-> r]
          /\ vals' = Append(vals, Value(CDataPlace(r.val, Len(heap) + 1)))
          /\ heap' = heap \o CDataBlocks(r.val, 0)
    /\ UNCHANGED <<registry, ncalls, layoutVars, lockVars>>

\* ffi.cast("char*", v)
BytesCast ==
    /\ res = None
    /\ Len(vals) < MaxVals
    /\ \E v \in {Integer(0)} \cup {UserData(i) : i \in DOMAIN vals} :
       \E r \in {cast_cdata(registry, S_charptr, v, CDatas(vals))} :
          /\ res' = [op |-> "cast", value |-> v, out |-> r]
          /\ vals' = Append(vals, Value(r.val))
    /\ UNCHANGED <<registry, ncalls, layoutVars, lockVars, heap>>

\* ffi.copy(dst, src, len)
BytesCopy ==
    /\ res = None
    /\ \E dst \in DOMAIN vals, len \in CopyLens,
          src \in {LuaString(str) : str \in CopyStrings}
                  \cup {UserData(i) : i \in DOMAIN vals} :
          /\ CopyDefined(heap, CDatas(vals), dst, src, len)
          /\ \E r \in {copy_memory(heap, CDatas(vals), dst, src, len)} :
                /\ res' = [op |-> "copy", dst |-> dst, src |-> src, len |-> len,
                           out |-> [ok |-> r.ok, val |-> r.val], before |-> heap]
                /\ heap' = r.hp
    /\ UNCHANGED <<registry, ncalls, layoutVars, lockVars, vals>>

\* ffi.fill(dst, len, value)
BytesFill ==
    /\ res = None
    /\ \E dst \in DOMAIN vals, len \in FillLens, value \in FillBytes :
          /\ FillDefined(heap, vals[dst].cd, len)
          /\ res' = [op |-> "fill", dst |-> dst, len |-> len, value |-> value,
                     ok |-> TRUE, before |-> heap]
          /\ heap' = fill_memory(heap, vals[dst].cd, len, value)
    /\ UNCHANGED <<registry, ncalls, layoutVars, lockVars, vals>>

\* ffi.string(v)
BytesToString ==
    /\ res = None
    /\ \E i \in DOMAIN vals :
          /\ vals[i].cd.ptr # NullPtr => ScanDefined(heap, vals[i].cd.ptr)
          /\ res' = [op |-> "string", of |-> i,
                     out |-> cdata_to_string(heap, vals[i].cd)]
    /\ UNCHANGED <<registry, ncalls, layoutVars, lockVars, vals, heap>>

InitBytes ==
    /\ fields = <<>>
    /\ ty = None
    /\ origin = "none"
    /\ registry = EmptyReg
    /\ res = None
    /\ ncalls = 0
    /\ lock = Unlocked
    /\ threads = [t \in Threads |-> Idle]
    /\ vals = <<>>
    /\ heap = <<>>

NextBytes == BytesNew \/ BytesCast \/ BytesCopy \/ BytesFill \/ BytesToString \/ Return

SpecBytes == InitBytes /\ [][NextBytes]_vars

(***************************************************************************)
(* Fields and elements: ffi.new of an array of each basic type and of a    *)
(* declared struct, value[key] = v (__newindex) and value[key] (__index).  *)
(***************************************************************************)
ElemDecl ==
    [name |-> NameP, body |-> <<F_int, F_Q, F_char3>>, fsemi |-> {1, 2, 3}, nclose |-> 1]
ElemReg == parse_cdef(EmptyReg, RenderDecl(ElemDecl)).reg

ElemNewNames ==
    {e[1] \o <<"[", "2", "]">> : e \in {b \in BASIC_TYPES : b[2].k # "Void"}}
    \cup {NameP, S_int \o <<"*", "[", "2", "]">>}
ElemKeys == {LuaString(<<DeclFieldNames[i]>>) : i \in 1..Len(DeclFieldNames)}
            \cup {Integer(0), Integer(1)}
ElemValues ==
    {Integer(0), Integer(1), Integer(-1), Integer(127), Integer(300), Integer(-129),
     Number(3000), Number(25), Number(-15), Number(20), NumberNaN, NumberInf,
     NumberNegInf, NumberPow2(63), Boolean(TRUE), Boolean(FALSE), Nil, UserData(1)}

\* ffi.new
ElemNew ==
    /\ res = None
    /\ vals = <<>>
    /\ \E name \in ElemNewNames : \E r \in {new_cdata(registry, name, Nil, TRUE)} :
          /\ res' = [op |-> "new", name |-> name, out |-> r]
          /\ vals' = Append(vals, Value(CDataPlace(r.val, Len(heap) + 1)))
          /\ heap' = heap \o CDataBlocks(r.val, 0)
    /\ UNCHANGED <<registry, ncalls, layoutVars, lockVars>>

\* value[key] = v
ElemNewIndex ==
    /\ res = None
    /\ \E i \in DOMAIN vals, key \in ElemKeys, v \in ElemValues :
       \E p \in {Place(vals[i].cd, key)} :
          /\ p.ok => InBlock(heap, p.val.ptr, AccessBytes(p.val.ctype))
          /\ \E r \in {NewIndex(heap, vals[i].cd, key, v, CDatas(vals))} :
                /\ res' = [op |-> "newindex", of |-> i, key |-> key, value |-> v,
                           ok |-> r.ok, before |-> heap]
                /\ heap' = IF r.ok THEN r.val ELSE heap
    /\ UNCHANGED <<registry, ncalls, layoutVars, lockVars, vals>>

\* value[key]: a read of a compound type makes a value
ElemIndex ==
    /\ res = None
    /\ \E i \in DOMAIN vals, key \in ElemKeys :
       \E p \in {Place(vals[i].cd, key)} :
          /\ p.ok => ReadDefined(heap, p.val.ptr, p.val.ctype)
          /\ \E r \in {Index(heap, vals[i].cd, key)} :
                /\ r.ok /\ r.val.t = "CData" => Len(vals) < MaxVals
                /\ res' = [op |-> "index", of |-> i, key |-> key, out |-> r]
                /\ vals' = IF r.ok /\ r.val.t = "CData"
                           THEN Append(vals, Value(r.val.cd)) ELSE vals
    /\ UNCHANGED <<registry, ncalls, layoutVars, lockVars, heap>>

InitElem ==
    /\ fields = <<>>
    /\ ty = None
    /\ origin = "none"
    /\ registry = ElemReg
    /\ res = None
    /\ ncalls = 0
    /\ lock = Unlocked
    /\ threads = [t \in Threads |-> Idle]
    /\ vals = <<>>
    /\ heap = <<>>

NextElem == ElemNew \/ ElemNewIndex \/ ElemIndex \/ Return

SpecElem == InitElem /\ [][NextElem]_vars

(***************************************************************************)
(* Structs through the parser, then assignments to their fields.           *)
(***************************************************************************)
FrameFieldSpecs ==
    {F_char, F_int, F_char3, FieldSpec(S_short, <<>>), FieldSpec(S_double, <<>>)}
FrameDecls ==
    {[name |-> NameP, body |-> b, fsemi |-> 1..Len(b), nclose |-> 1] :
        b \in UNION {[1..n -> FrameFieldSpecs] : n \in 1..Len(DeclFieldNames)}}
FrameKeys == {LuaString(<<DeclFieldNames[i]>>) : i \in 1..Len(DeclFieldNames)}
FrameValues == {Integer(1), Integer(-1), Integer(300), Number(25), Nil}

\* ffi.cdef of one struct
FrameCdef ==
    /\ res = None
    /\ registry = EmptyReg
    /\ \E d \in FrameDecls : \E r \in {parse_cdef(registry, RenderDecl(d))} :
          /\ registry' = r.reg
          /\ res' = [op |-> "cdef", decl |-> d, ok |-> r.ok, before |-> registry]
    /\ UNCHANGED <<ncalls, layoutVars, lockVars, memVars>>

\* ffi.new of the struct
FrameNew ==
    /\ res = None
    /\ vals = <<>>
    /\ NameP \in DOMAIN registry
    /\ \E r \in {new_cdata(registry, NameP, Nil, TRUE)} :
          /\ res' = [op |-> "new", name |-> NameP, out |-> r]
          /\ vals' = Append(vals, Value(CDataPlace(r.val, Len(heap) + 1)))
          /\ heap' = heap \o CDataBlocks(r.val, 0)
    /\ UNCHANGED <<registry, ncalls, layoutVars, lockVars>>

\* value.field = v
FrameNewIndex ==
    /\ res = None
    /\ \E i \in DOMAIN vals, key \in FrameKeys, v \in FrameValues :
       \E p \in {Place(vals[i].cd, key)} :
          /\ p.ok => InBlock(heap, p.val.ptr, AccessBytes(p.val.ctype))
          /\ \E r \in {NewIndex(heap, vals[i].cd, key, v, CDatas(vals))} :
                /\ res' = [op |-> "newindex", of |-> i, key |-> key, value |-> v,
                           ok |-> r.ok, before |-> heap]
                /\ heap' = IF r.ok THEN r.val ELSE heap
    /\ UNCHANGED <<registry, ncalls, layoutVars, lockVars, vals>>

NextFrame == FrameCdef \/ FrameNew \/ FrameNewIndex \/ Return

SpecFrame == InitLayout /\ [][NextFrame]_vars

(***************************************************************************)
(* Allocation with an initialiser, then assignments.  The parser has no    *)
(* rule for unions: the union U and the struct W that holds one enter the  *)
(* registry through register_type.                                         *)
(***************************************************************************)
NameU == <<"U">>
NameW == <<"W">>
UnionU ==
    Union(NameU, <<CField(<<"i">>, Scalar("Int"), 0), CField(<<"s">>, Scalar("Short"), 0)>>)
StructW ==
    Struct(NameW, calculate_field_offsets(
        <<CField(<<"u">>, UnionU, 0), CField(<<"x">>, Scalar("Int"), 0)>>))
InitReg == register_type(register_type(ElemReg, NameU, UnionU), NameW, StructW)

S_intptr2 == S_int \o <<"*", "[", "2", "]">>
Sequence(arr) == Table(arr, NoKeys)
Mapping(rec) == Table(<<>>, rec)
K_i == <<"i">>
K_s == <<"s">>
K_u == <<"u">>
K_x == <<"x">>
K_y == <<"y">>
K_z == <<"z">>
InitStrings == {LuaString(<<"a", "b">>)}

InitArgs ==
    {<<S_int, Integer(5)>>, <<NameP, Nil>>,
     <<S_int2, Sequence(<<Integer(1), Integer(2)>>)>>,
     <<S_int2, Sequence(<<Integer(1)>>)>>,
     <<S_intptr2, Sequence(<<>>)>>,
     <<S_char8, Sequence(<<Integer(CharCode("a")), Integer(CharCode("b"))>>)>>,
     <<NameP, Mapping(K_x :> Integer(1))>>,
     <<NameP, Mapping(K_x :> Integer(1) @@ K_y :> Integer(2)
                      @@ K_z :> LuaString(<<"a", "b">>))>>,
     <<NameU, Mapping(K_i :> Integer(7))>>,
     <<NameU, Mapping(K_s :> Integer(5))>>,
     <<NameU, Mapping(K_i :> Integer(7) @@ K_s :> Integer(5))>>,
     <<NameW, Mapping(K_u :> Mapping(K_i :> Integer(7)) @@ K_x :> Integer(1))>>,
     <<NameW, Mapping(K_u :> Mapping(K_s :> Integer(5)) @@ K_x :> Integer(1))>>,
     <<NameW, Mapping(K_u :> Mapping(K_i :> Integer(7) @@ K_s :> Integer(5))
                      @@ K_x :> Integer(1))>>}
    \cup {<<S_char8, str>> : str \in InitStrings}
InitKeys == {LuaString(K_x), LuaString(K_y), LuaString(K_z), Integer(0), Integer(1)}
InitValues == {Integer(1), Nil, Sequence(<<Integer(1)>>)} \cup InitStrings

\* ffi.new(type, init)
InitNew ==
    /\ res = None
    /\ Len(heap) < MaxVals
    /\ \E a \in InitArgs :
       \E r \in {NewInitialized(heap, registry, a[1], a[2], 0, CDatas(vals))} :
          /\ res' = [op |-> "new", name |-> a[1], init |-> a[2], out |-> r.out,
                     fresh |-> r.fresh]
          /\ vals' = IF r.out.ok THEN Append(vals, Value(r.out.val)) ELSE vals
          /\ heap' = r.heap
    /\ UNCHANGED <<registry, ncalls, layoutVars, lockVars>>

\* value[key] = v
InitNewIndex ==
    /\ res = None
    /\ \E i \in DOMAIN vals, key \in InitKeys, v \in InitValues :
       \E p \in {Place(vals[i].cd, key)} :
          /\ p.ok => InBlock(heap, p.val.ptr, size(p.val.ctype))
          /\ \E r \in {NewIndex(heap, vals[i].cd, key, v, CDatas(vals))} :
                /\ res' = [op |-> "newindex", of |-> i, key |-> key, value |-> v,
                           ok |-> r.ok, before |-> heap]
                /\ heap' = IF r.ok THEN r.val ELSE heap
    /\ UNCHANGED <<registry, ncalls, layoutVars, lockVars, vals>>

InitInit ==
    /\ fields = <<>>
    /\ ty = None
    /\ origin = "none"
    /\ registry = InitReg
    /\ res = None
    /\ ncalls = 0
    /\ lock = Unlocked
    /\ threads = [t \in Threads |-> Idle]
    /\ vals = <<>>
    /\ heap = <<>>

NextInit == InitNew \/ InitNewIndex \/ Return

SpecInit == InitInit /\ [][NextInit]_vars

(***************************************************************************)
(* Threads on the registry.  lookup_registered_type takes the read lock,   *)
(* clones the entry and lets the guard go at the end of the statement;     *)
(* register_type takes the write lock, inserts and lets go.  The insert    *)
(* is two steps, so that an entry half stored exists for a while.          *)
(***************************************************************************)
LockTypes ==
    {Struct(NameP, calculate_field_offsets(<<CField(<<"x">>, Scalar("Int"), 0)>>)),
     Struct(NameP, calculate_field_offsets(
        <<CField(<<"x">>, Scalar("Char"), 0), CField(<<"y">>, Scalar("Int"), 0)>>))}

\* lookup_registered_type: TYPE_REGISTRY.read().unwrap()
LookupLock(t) ==
    /\ threads[t].pc = "idle"
    /\ RwLockRead(lock)
    /\ lock' = [lock EXCEPT !.readers = @ + 1]
    /\ threads' = [threads EXCEPT ![t] = [Idle EXCEPT !.pc = "read", !.name = NameP]]
    /\ UNCHANGED <<registry, res, ncalls, layoutVars, memVars>>

\* .get(name).cloned()
LookupGet(t) ==
    /\ threads[t].pc = "read"
    /\ threads' = [threads EXCEPT ![t].pc = "got",
                                  ![t].out = lookup_registered_type(registry, threads[t].name)]
    /\ UNCHANGED <<registry, res, ncalls, lock, layoutVars, memVars>>

\* the read guard is dropped and the lookup returns
LookupUnlock(t) ==
    /\ threads[t].pc = "got"
    /\ lock' = [lock EXCEPT !.readers = @ - 1]
    /\ threads' = [threads EXCEPT ![t].pc = "idle"]
    /\ UNCHANGED <<registry, res, ncalls, layoutVars, memVars>>

\* register_type: TYPE_REGISTRY.write().unwrap()
RegisterLock(t) ==
    /\ threads[t].pc = "idle"
    /\ RwLockWrite(lock)
    /\ lock' = [lock EXCEPT !.writer = TRUE]
    /\ \E ctype \in LockTypes :
          threads' = [threads EXCEPT
                        ![t] = [Idle EXCEPT !.pc = "write", !.name = NameP, !.ctype = ctype]]
    /\ UNCHANGED <<registry, res, ncalls, layoutVars, memVars>>

\* .insert(name, ctype), begun
InsertBegin(t) ==
    /\ threads[t].pc = "write"
    /\ registry' = register_type(registry, threads[t].name, Partial(threads[t].ctype))
    /\ threads' = [threads EXCEPT ![t].pc = "inserting"]
    /\ UNCHANGED <<res, ncalls, lock, layoutVars, memVars>>

\* .insert(name, ctype), done
InsertEnd(t) ==
    /\ threads[t].pc = "inserting"
    /\ registry' = register_type(registry, threads[t].name, threads[t].ctype)
    /\ threads' = [threads EXCEPT ![t].pc = "inserted"]
    /\ UNCHANGED <<res, ncalls, lock, layoutVars, memVars>>

\* the write guard is dropped and register_type returns
RegisterUnlock(t) ==
    /\ threads[t].pc = "inserted"
    /\ lock' = [lock EXCEPT !.writer = FALSE]
    /\ threads' = [threads EXCEPT ![t].pc = "idle"]
    /\ UNCHANGED <<registry, res, ncalls, layoutVars, memVars>>

NextLock ==
    \/ \E t \in Threads : LookupLock(t)
    \/ \E t \in Threads : LookupGet(t)
    \/ \E t \in Threads : LookupUnlock(t)
    \/ \E t \in Threads : RegisterLock(t)
    \/ \E t \in Threads : InsertBegin(t)
    \/ \E t \in Threads : InsertEnd(t)
    \/ \E t \in Threads : RegisterUnlock(t)

SpecLock == InitLayout /\ [][NextLock]_vars

(***************************************************************************)
(* Registry, parser and allocation claims.  res holds the call that has    *)
(* just been made: its arguments, its outcome and, for ffi.cdef, the       *)
(* registry before it.                                                     *)
(***************************************************************************)
IsCall(op) == res # None /\ res.op = op

\* every field is followed by its semicolon and the brace by exactly one
WellFormed(d) == d.fsemi = 1..Len(d.body) /\ d.nclose = 1

\* a semicolon is missing after a field or after the closing brace
MissingSemicolon(d) == d.fsemi # 1..Len(d.body) \/ d.nclose = 0

FieldsResolvable(reg, d) ==
    \A i \in 1..Len(d.body) : lookup_type(reg, d.body[i].type).ok

FieldTypeOf(reg, f) ==
    IF f.arr = <<>> THEN lookup_type(reg, f.type).val
    ELSE Array(lookup_type(reg, f.type).val,
               DigitsValue(SubSeq(f.arr, 2, Len(f.arr) - 1), 0))

\* the descriptor the declaration d stands for
DeclaredStruct(reg, d) ==
    Struct(d.name,
           calculate_field_offsets(
               [i \in 1..Len(d.body) |->
                   CField(<<DeclFieldNames[i]>>, FieldTypeOf(reg, d.body[i]), 0)]))

RECURSIVE PointerLayers(_, _)
PointerLayers(t, k) == IF k = 0 THEN t ELSE Ptr(PointerLayers(t, k - 1))

BaseName(tn) == [tn EXCEPT !.quals = <<>>]

\* C5: after ffi.cdef of a well-formed "struct Name { fields };" whose field
\* types are resolvable type names returns success, resolving Name, its
\* sizeof and the offsetof of each field succeed and give the Struct with the
\* fields in declaration order at the offsets and with the size of the
\* layout pass, whatever Name resolved to before.
CexC5_ParsedStructResolves ==
    (IsCall("cdef") /\ res.ok /\ WellFormed(res.decl)
        /\ FieldsResolvable(res.before, res.decl)) =>
        LET want == DeclaredStruct(res.before, res.decl)
            name == res.decl.name
        IN /\ lookup_type(registry, name) = Ok(want)
           /\ sizeof_type(registry, name) = Ok(size(want))
           /\ \A i \in 1..Len(want.fields) :
                 offsetof_field(registry, name, want.fields[i].name)
                     = Ok(want.fields[i].offset)

\* C6: ffi.cdef of a struct declaration that lacks a required semicolon,
\* after a field or after the closing brace, returns an error and registers
\* nothing under the struct's name.
CexC6_MissingSemicolonRejected ==
    (IsCall("cdef") /\ MissingSemicolon(res.decl)
        /\ FieldsResolvable(res.before, res.decl)) =>
        /\ ~res.ok
        /\ (res.decl.name \in DOMAIN registry =>
                /\ res.decl.name \in DOMAIN res.before
                /\ registry[res.decl.name] = res.before[res.decl.name])

\* C7: when ffi.cdef returns an error, every type name registered before the
\* call still resolves to the descriptor it had before the call.
CexC7_FailedParseKeepsTypes ==
    (IsCall("cdef") /\ ~res.ok) =>
        \A n \in DOMAIN res.before :
            n \in DOMAIN registry /\ registry[n] = res.before[n]

\* C8: for a resolvable base name T and k >= 1, resolving T followed by k
\* stars gives k nested Ptr layers around the descriptor of T.
CexC8_NestedPointers ==
    (IsCall("lookup") /\ res.tn.quals = <<>> /\ res.tn.suffix = <<>>
        /\ res.tn.stars >= 1 /\ lookup_type(registry, res.tn.base).ok) =>
        res.out = Ok(PointerLayers(lookup_type(registry, res.tn.base).val, res.tn.stars))

\* C9: for a resolvable type name T and one or more leading qualifiers out of
\* const, volatile and restrict, in any order and combination, resolving
\* "<qualifiers> T" succeeds with the descriptor that resolving T gives.
CexC9_QualifiersStripped ==
    (IsCall("lookup") /\ Len(res.tn.quals) >= 1
        /\ lookup_type(registry, RenderType(BaseName(res.tn))).ok) =>
        res.out = lookup_type(registry, RenderType(BaseName(res.tn)))

\* the count a numeric init value stands for: an integer itself, a finite
\* number truncated toward zero
IsCountOf(init, n) ==
    \/ init.t = "Integer" /\ init.i = n
    \/ init.t = "Number" /\ init.class = "finite"
        /\ 10 * n <= init.tenths /\ init.tenths < 10 * (n + 1)

\* C10: a VLA descriptor has size 0 and the alignment of its element type;
\* ffi.new of it with a non-negative finite count n (a fraction truncated)
\* gives a cdata of type Array(element, n) holding n * size(element) bytes:
\* char*[?] with count 3 holds 3 pointers.
ThmC10_VlaAllocation ==
    /\ (IsCall("lookup") /\ res.out.ok /\ res.out.val.k = "VLA") =>
            /\ size(res.out.val) = 0
            /\ alignment(res.out.val) = alignment(res.out.val.inner)
    /\ (IsCall("new") /\ IsVlaName(res.tn)
            /\ lookup_type(registry, RenderType(res.tn)).ok) =>
            LET elem == lookup_type(registry, RenderType(res.tn)).val.inner IN
            \A n \in 0..TestCount :
                IsCountOf(res.init, n) =>
                    /\ res.out.ok
                    /\ res.out.val.ctype = Array(elem, n)
                    /\ res.out.val.size = n * size(elem)
                    /\ (elem = Ptr(Scalar("Char")) /\ n = 3 =>
                            res.out.val.size = 3 * PtrSize)

\* char*[?] allocated with the count 3.5
WitC10_CharPtrVlaFraction ==
    /\ IsCall("new")
    /\ RenderType(res.tn) = S_char \o <<"*", "[", "?", "]">>
    /\ res.init = Number(35)
    /\ res.out.ok
    /\ res.out.val.ctype = Array(Ptr(Scalar("Char")), 3)
    /\ res.out.val.size = 24

(***************************************************************************)
(* Scalar descriptors.                                                     *)
(***************************************************************************)
\* C19: every scalar descriptor (boolean, every integer kind, the size
\* types, float, double, void and the POSIX aliases) has size > 0 and
\* alignment > 0.
CexC19_ScalarsPositive ==
    \A t \in Built : t.k \in ScalarKinds => size(t) > 0 /\ alignment(t) > 0

\* C19, amended: every scalar descriptor other than void has size > 0 and
\* alignment > 0; void has size 0 and alignment 1.
ThmC19_ScalarsPositiveButVoid ==
    \A t \in Built :
        /\ t.k \in ScalarKinds \ {"Void"} => size(t) > 0 /\ alignment(t) > 0
        /\ t.k = "Void" => size(t) = 0 /\ alignment(t) = 1

\* a POSIX alias, which size() and alignment() reach through their last arms
WitC19_PosixAlias ==
    /\ ty = Scalar("SusecondsT")
    /\ size(ty) = 8
    /\ alignment(ty) = 8

(***************************************************************************)
(* Claims on the life of the values.                                       *)
(***************************************************************************)
IsLifeCall(op) == res # None /\ res.op = op

\* the counts that ffi.new of a VLA type must reject
InvalidCount(init) ==
    /\ ~(init.t = "Integer" /\ init.i >= 0)
    /\ ~(init.t = "Number" /\ init.class = "finite" /\ init.tenths >= 0)

\* C11: ffi.new of a VLA type name with a count that is a negative integer, a
\* negative, NaN or infinite number, not a number, or missing, returns an
\* error; it makes no value and takes no storage.
ThmC11_InvalidVlaCount ==
    [][(/\ res = None
        /\ res' # None
        /\ res'.op = "new"
        /\ res'.name = S_long \o S_vla
        /\ InvalidCount(res'.init))
       => (~res'.out.ok /\ vals' = vals /\ heap' = heap)]_vars

WitC11_NegativeFraction ==
    /\ IsLifeCall("new")
    /\ res.name = S_long \o S_vla
    /\ res.init = Number(-5)
    /\ res.out = Err("VLA size must be non-negative")
    /\ Len(vals) = 1
    /\ Len(heap) = 1

\* C12: no live value has a VLA type, whether it came from ffi.new, ffi.cast,
\* ffi.addressof or a read.
CexC12_NoLiveVla ==
    \A i \in Live(vals) : vals[i].cd.ctype.k # "VLA"

\* C13: every heap block is deallocated exactly once, with the size and the
\* alignment it was allocated with: never twice, never with another layout,
\* and it has been deallocated once no value is live any more.
CexC13_DeallocatedOnce ==
    \A r \in DOMAIN heap :
        heap[r].kind = "heap" =>
            /\ Len(heap[r].released) <= 1
            /\ \A k \in DOMAIN heap[r].released : heap[r].released[k] = heap[r].layout
            /\ Live(vals) = {} => Len(heap[r].released) = 1

\* C14: when std::alloc::alloc fails, ffi.new returns an error: it returns a
\* value only if the value needs no heap block, and no value owns the null
\* address.
CexC14_AllocationError ==
    /\ (IsLifeCall("new") /\ ~res.allocOk /\ res.out.ok)
            => res.out.val.size <= SMALL_BUFFER_SIZE
    /\ \A i \in DOMAIN vals : vals[i].cd.owned => vals[i].cd.ptr # NullPtr

(***************************************************************************)
(* Claims on bytes and strings.                                            *)
(***************************************************************************)
\* the length a call of ffi.copy asks for
RequestedLen(call) == IF call.len = Nil THEN Len(call.src.s) ELSE call.len.i

IsCharBuffer(cd) ==
    cd.ctype.k \in {"Ptr", "Array"} /\ cd.ctype.inner.k \in {"Char", "UChar"}

\* C15: ffi.copy with a requested length above the size recorded for the
\* destination returns an error, whether the source is a host string or a
\* cdata, and leaves every byte of the destination and beyond it unchanged.
CexC15_CopyOverflow ==
    (/\ IsLifeCall("copy")
     /\ res.src.t = "String" \/ res.len # Nil
     /\ RequestedLen(res) > vals[res.dst].cd.size)
        => (~res.out.ok /\ heap = res.before)

\* C16: ffi.string of a char array whose bytes hold a zero returns the bytes
\* before the first zero; of a char array with no zero byte in its extent, of
\* a value of another element type and of a null value it returns an error.
CexC16_StringWithinExtent ==
    IsLifeCall("string") =>
        \E cd \in {vals[res.of].cd} :
            IF cd.ptr = NullPtr \/ ~IsCharBuffer(cd) THEN ~res.out.ok
            ELSE cd.ctype.k = "Array" =>
                    \E ext \in {Load(heap, cd.ptr, cd.size)} :
                        IF StrLen(ext) < Len(ext)
                        THEN res.out = Ok(to_string_lossy(SubSeq(ext, 1, StrLen(ext))))
                        ELSE ~res.out.ok

(***************************************************************************)
(* Claims on fields and elements.  The place of a call is the address and  *)
(* the type its key stands for.                                            *)
(***************************************************************************)
CallPlace == Place(vals[res.of].cd, res.key)
IsPlaceCall(op) == IsLifeCall(op) /\ CallPlace.ok

\* v mod 2^w as the w / 8 low bytes of the two's complement of v
WrapBytes(i, n) == SubSeq(I64Bytes(i), 1, n)

\* C17: a write of a host integer or a finite host float to an integer place
\* of n bytes never fails; the integer v stores v mod 2^(8n), the float f
\* stores trunc(f) mod 2^(8n): wraparound, not saturation.
CexC17_WriteWraps ==
    (/\ IsPlaceCall("newindex")
     /\ CallPlace.val.ctype.k \in KindsInteger
     /\ res.value.t = "Integer" \/ (res.value.t = "Number" /\ res.value.class = "finite"))
        => /\ res.ok
           /\ \E n \in {NativeBytes(CallPlace.val.ctype.k)} :
                 Load(heap, CallPlace.val.ptr, n) =
                    WrapBytes(IF res.value.t = "Integer" THEN res.value.i
                              ELSE Trunc(res.value.tenths), n)

\* the native range of an integer kind, for the host values of the model
InRange(v, kind) ==
    CASE v.t = "Boolean" -> kind = "Bool"
      [] v.t = "Integer" /\ kind \in KindsInteger ->
            IF NativeBytes(kind) <= 2
            THEN IF kind \in KindsSigned
                 THEN /\ v.i >= -(Pow256(NativeBytes(kind)) \div 2)
                      /\ v.i < Pow256(NativeBytes(kind)) \div 2
                 ELSE v.i >= 0 /\ v.i < Pow256(NativeBytes(kind))
            ELSE kind \in KindsSigned \/ v.i >= 0
      [] v.t = "Number" /\ kind \in KindsInteger /\ v.class = "pow2" ->
            v.e < 8 * NativeBytes(kind) - (IF kind \in KindsSigned THEN 1 ELSE 0)
      [] OTHER -> FALSE

\* the host value r is the host value v
SameValue(r, v) ==
    IF v.t = "Number" /\ v.class = "pow2"
    THEN /\ r.t = "Integer"
         /\ v.e < 63
         /\ IntegerBytes(r) = [k \in 1..8 |-> IF k = (v.e \div 8) + 1 THEN Pow2(v.e % 8) ELSE 0]
    ELSE r = v

\* C18: a host value within the native range of an integer or boolean type,
\* written to a struct field or an array element of that type, is the value
\* a read of that field or element returns.
CexC18_RoundTrip ==
    (/\ IsPlaceCall("newindex")
     /\ InRange(res.value, CallPlace.val.ctype.k))
        => /\ res.ok
           /\ SameValue(read_ctype_value(heap, CallPlace.val.ptr, CallPlace.val.ctype),
                        res.value)

\* C20: a Typedef has the size and the alignment of its inner type, and a read
\* or a write of a place whose type is a Typedef gives what the same read or
\* write gives for the inner type.
CexC20_TypedefForwards ==
    /\ IsPlaceCall("index") /\ CallPlace.val.ctype.k = "Typedef" =>
          /\ size(CallPlace.val.ctype) = size(CallPlace.val.ctype.inner)
          /\ alignment(CallPlace.val.ctype) = alignment(CallPlace.val.ctype.inner)
          /\ res.out = Ok(read_ctype_value(heap, CallPlace.val.ptr,
                                           CallPlace.val.ctype.inner))
    /\ IsPlaceCall("newindex") /\ CallPlace.val.ctype.k = "Typedef" =>
          \E w \in {cdata_write_value_to_ptr(res.before, CallPlace.val.ptr,
                                             CallPlace.val.ctype.inner, res.value,
                                             CDatas(vals))} :
              /\ res.ok = w.ok
              /\ w.ok => heap = w.val

\* the address that the eight bytes of a pointer place hold
StoredAddress(b8) ==
    IF "i" \in DOMAIN IntegerOfBytes(b8) /\ IntegerOfBytes(b8).i >= 0
    THEN AddressOfBits(IntegerOfBytes(b8).i)
    ELSE [wide |-> b8]

\* C21: a read of a pointer-typed field or element that holds the address A
\* returns a new value that owns nothing and whose address is A, so that the
\* address of a value written to the place and read back leads to the bytes
\* of that value.
CexC21_PointerReadDereferences ==
    (IsPlaceCall("index") /\ CallPlace.val.ctype.k = "Ptr") =>
        /\ res.out.ok
        /\ res.out.val.t = "CData"
        /\ ~res.out.val.cd.owned
        /\ res.out.val.cd.ptr = StoredAddress(Load(heap, CallPlace.val.ptr, 8))

\* C29: the bytes of a value that ffi.new has just made without an
\* initializer are all zero, whether the value lives in the small buffer (at
\* most 64 bytes) or in a heap block (more than 64 bytes).
CexC29_FreshBytesZero ==
    (IsLifeCall("new") /\ res.out.ok /\ res.out.val.ptr # "null") =>
        \E cd \in {vals[Len(vals)].cd} :
            Load(heap, cd.ptr, cd.size) = [k \in 1..cd.size |-> 0]

\* C30: ffi.fill with a length above the size recorded for the destination,
\* or with a null destination, returns an error and writes no byte; otherwise
\* it sets the bytes 0..length-1 of the destination to the byte value and
\* leaves every other byte unchanged.
CexC30_FillWithinDestination ==
    IsLifeCall("fill") =>
        \E cd \in {vals[res.dst].cd} :
            IF res.len > cd.size \/ cd.ptr = NullPtr
            THEN ~res.ok /\ heap = res.before
            ELSE /\ res.ok
                 /\ heap = Store(res.before, cd.ptr, [k \in 1..res.len |-> res.value])

\* C26: for every descriptor built from the type algebra (scalars, pointers,
\* arrays, laid-out structs, unions, typedefs), alignment() is a power of two
\* and size() is a multiple of alignment(), so every element of an array of
\* the type starts at an aligned address.
IsPowerOfTwo(n) == n >= 1 /\ BitAnd(n, n - 1) = 0

CexC26_SizeMultipleOfAlignment ==
    \A t \in Built :
        (t.k # "Struct" \/ origin = "parsed") =>
            /\ IsPowerOfTwo(alignment(t))
            /\ size(t) % alignment(t) = 0

\* C27: in every struct produced by the layout pass the byte ranges
\* [offset, offset + size) of distinct fields are pairwise disjoint and lie
\* within [0, size(struct)); an assignment to one field of a struct value
\* changes no byte outside the range of that field.
FieldRange(f) == f.offset .. (f.offset + size(f.ctype) - 1)

RangesDisjoint(t) ==
    /\ \A i, j \in 1..Len(t.fields) :
          i # j => FieldRange(t.fields[i]) \cap FieldRange(t.fields[j]) = {}
    /\ \A i \in 1..Len(t.fields) : FieldRange(t.fields[i]) \subseteq 0..(size(t) - 1)

\* the bytes of the block of a value outside the range of one field
OutsideField(hp, cd, f) ==
    [k \in (1..Len(hp[cd.ptr.r].bytes)) \ {cd.ptr.off + b + 1 : b \in FieldRange(f)}
        |-> hp[cd.ptr.r].bytes[k]]

ThmC27_FieldsDisjoint ==
    /\ \A n \in DOMAIN registry : RangesDisjoint(registry[n])
    /\ IsLifeCall("newindex") =>
          \E cd \in {vals[res.of].cd} :
          \E f \in {FindField(cd.ctype.fields, res.key.s)} :
             IF f = None \/ ~res.ok THEN heap = res.before
             ELSE /\ Len(heap) = Len(res.before)
                  /\ \A r \in (DOMAIN heap) \ {cd.ptr.r} : heap[r] = res.before[r]
                  /\ OutsideField(heap, cd, f) = OutsideField(res.before, cd, f)

\* { char x; int y; short z; }: y assigned between x and z, both set before
WitC27_MiddleFieldAssigned ==
    /\ IsLifeCall("newindex")
    /\ res.ok
    /\ res.key = LuaString(<<"y">>)
    /\ FieldOffsetsOf(vals[1].cd.ctype.fields) = <<0, 4, 8>>
    /\ size(vals[1].cd.ctype) = 12
    /\ Load(heap, vals[1].cd.ptr, 12) = <<1, 0, 0, 0, 255, 255, 255, 255, 44, 1, 0, 0>>

(***************************************************************************)
(* Claims on initialisers.  res holds the call, with the heap as it was    *)
(* between the allocation and the first write (fresh).                     *)
(***************************************************************************)
IsInitCall == IsLifeCall("new") /\ res.init # Nil
InitType == lookup_type(registry, res.name).val
NamedFields(fs, table) == SelectSeq(fs, LAMBDA f : f.name \in DOMAIN table.rec)

\* C22: allocating Array(inner, n) with a host sequence of k <= n elements
\* succeeds, stores the j-th element at index j-1 for j = 1..k and writes
\* nothing to the other n-k elements; allocating a char array of capacity n
\* with a host string of length L < n succeeds, copies the L bytes and writes
\* a single zero byte at index L.
CexC22_ArrayInitPrefix ==
    (IsInitCall /\ InitType.k = "Array") =>
        /\ (res.init.t = "Table" /\ Len(res.init.arr) <= InitType.count) =>
              /\ res.out.ok
              /\ heap = WriteElements(res.fresh, res.out.val.ptr,
                                      Array(InitType.inner, Len(res.init.arr)),
                                      res.init, 0, CDatas(vals)).val
        /\ (res.init.t = "String" /\ InitType.inner.k = "Char"
                /\ Len(res.init.s) < InitType.count) =>
              /\ res.out.ok
              /\ heap = Store(res.fresh, res.out.val.ptr, as_bytes(res.init.s) \o <<0>>)

\* C23: allocating a struct with a host mapping that names a subset of its
\* fields succeeds: every field named in the mapping receives the mapped
\* value and every other field keeps its initial bytes.
CexC23_StructInitSubset ==
    (/\ IsInitCall
     /\ InitType.k = "Struct"
     /\ res.init.t = "Table"
     /\ \A i \in 1..Len(InitType.fields) : InitType.fields[i].ctype.k # "Union") =>
        /\ res.out.ok
        /\ heap = WriteFields(res.fresh, res.out.val.ptr,
                              NamedFields(InitType.fields, res.init), res.init, 1,
                              CDatas(vals)).val

\* the rule of C24: the first field in declaration order that the mapping
\* names is written, no other
UnionInitFirstNamed(hp, ptr, fs, table, vs) ==
    WriteFields(hp, ptr, SubSeq(NamedFields(fs, table), 1, 1), table, 1, vs)

CexC28_WriteRoutinesAgree ==
    IsLifeCall("newindex") =>
        \E p \in {Place(vals[res.of].cd, res.key)} :
            p.ok =>
                \E w \in {ffi_ops_write_value_to_ptr(res.before, p.val.ptr, p.val.ctype,
                                                     res.value, CDatas(vals))} :
                    /\ w.ok = res.ok
                    /\ w.ok => w.val = heap

(***************************************************************************)
(* Claims on the threads.                                                  *)
(***************************************************************************)
Registering == {t \in Threads : threads[t].pc \in {"write", "inserting", "inserted"}}
LookingUp == {t \in Threads : threads[t].pc \in {"read", "got"}}

\* C25: with several threads resolving and registering types, a
\* registration never holds the registry together with another registration
\* or with a lookup, lookups may hold it together, and a lookup returns no
\* entry or a complete descriptor that a registration of the name supplied,
\* never one half inserted.
ThmC25_RegistryLockDiscipline ==
    /\ Cardinality(Registering) <= 1
    /\ Registering # {} => LookingUp = {}
    /\ \A t \in Threads :
          /\ threads[t].out # None =>
                (threads[t].out.ok => threads[t].out.val \in LockTypes)
          /\ threads[t].pc = "got" =>
                threads[t].out = lookup_registered_type(registry, threads[t].name)
    /\ \A n \in DOMAIN registry :
          registry[n].k = "Partial" => \E t \in Registering : threads[t].pc = "inserting"

\* two lookups hold the registry together, one has its descriptor already
WitC25_TwoLookupsTogether ==
    /\ Cardinality(LookingUp) >= 2
    /\ \E t \in LookingUp : threads[t].pc = "got" /\ threads[t].out.ok
    /\ \E t \in LookingUp : threads[t].pc = "read"

====
